---- MODULE Spec2Model ----
(***************************************************************************)
(* Model of the hl-agent trading toolkit: the RiskManager                  *)
(* (src/unnamed/part_000, imported as ../safety/risk-manager.js), the      *)
(* openPosition / closePosition sequences of HyperliquidAgentToolkit       *)
(* (src/src/toolkit/hyperliquid-toolkit.ts), batchExecute of               *)
(* EnhancedHyperliquidToolkit (src/unnamed/part_004) and the start / stop  *)
(* / tick cycle of HyperliquidAgent (src/src/agent/agent.ts).              *)
(*                                                                         *)
(* Numbers.  Amounts are integers (USD, coin units).  An optional numeric  *)
(* field of the TypeScript code is 0 when absent: the code tests these     *)
(* fields only by truthiness (x || d, x && ..., !x), which treats an       *)
(* explicit 0 and undefined alike.  Comparisons of quotients and of        *)
(* products by 0.1 / 0.8 / 0.9 are cross-multiplied, and a division by a   *)
(* zero balance is given its IEEE outcome (Infinity or NaN).  Prices sent  *)
(* to the exchange are exact decimals counted in units of 10^-5.           *)
(***************************************************************************)
EXTENDS Integers, Sequences, FiniteSets, TLC

VARIABLES
  riskEnabled,        \* toolkit: #riskManager is defined (config.riskConfig given)
  config,             \* RiskManager.#config
  dailyPnl,           \* RiskManager.#dailyPnl
  dailyPnlResetTime,  \* RiskManager.#dailyPnlResetTime
  tradesLog,          \* RiskManager.#tradesLog
  now,                \* Date.now()
  lastCheck,          \* observation: the direct RiskManager call being returned
  assetMap,           \* toolkit: #assetMap (perp universe cache)
  spotAssetMap,       \* toolkit: #spotAssetMap (spot universe cache)
  run,                \* the toolkit call in progress: its position, locals, calls made
  parked,             \* batchExecute: the other calls in flight, each at an await
  opsStarted,         \* number of toolkit calls started so far
  agent               \* HyperliquidAgent: #state, #intervalHandle, #isExecuting, its calls

riskVars == <<riskEnabled, config, dailyPnl, dailyPnlResetTime, tradesLog>>
toolkitVars == <<assetMap, spotAssetMap, run, parked, opsStarted>>
vars == <<riskEnabled, config, dailyPnl, dailyPnlResetTime, tradesLog, now, lastCheck,
          assetMap, spotAssetMap, run, parked, opsStarted, agent>>

----------------------------------------------------------------------------
(* Bounds of the model *)

\* the clock advances in half-day steps, at most this many times
MaxTicks == 2
\* recordTrade is called at most this many times in one behaviour
MaxRecords == 2
\* at most this many toolkit calls (openPosition, closePosition) are started
MaxOps == 2
\* the agent's start() is called at most this many times
MaxStarts == 2
\* the agent's interval timers fire at most this many times in all
MaxFires == 2
\* the agent's executeAction is called on demand at most this many times
MaxActions == 1

----------------------------------------------------------------------------
(* Small helpers *)

AbsInt(x) == IF x < 0 THEN -x ELSE x

MinOf(S) == CHOOSE x \in S : \A y \in S : x <= y

RECURSIVE SumUnrealized(_)
\* currentPositions.reduce((sum, p) => sum + p.unrealizedPnl, 0)
SumUnrealized(ps) ==
  IF ps = <<>> THEN 0 ELSE ps[1].unrealizedPnl + SumUnrealized(Tail(ps))

----------------------------------------------------------------------------
(* RiskManager *)

\* const dayMs = 24 * 60 * 60 * 1000
dayMs == 24 * 60 * 60 * 1000

\* the step of the model's clock: half a day
TickMs == dayMs \div 2

\* the optional numeric limits of RiskConfig
LimitKeys == {"maxDailyLoss", "maxDrawdownPercent", "maxOpenPositions"}

\* a RiskConfig object: its values (0 for an optional limit that is absent)
\* and, in `given`, the optional limits it carries as properties
RiskConfig(ml, mps, dl, dd, mp, sl, given) ==
  [maxLeverage |-> ml, maxPositionSizeUsd |-> mps, maxDailyLoss |-> dl,
   maxDrawdownPercent |-> dd, maxOpenPositions |-> mp, requireStopLoss |-> sl,
   given |-> given]

\* validateConfig returns the config (TRUE) or throws (FALSE)
validateConfig(c) ==
  /\ ~(c.maxLeverage <= 0 \/ c.maxLeverage > 50)
  /\ ~(c.maxPositionSizeUsd <= 0)
  /\ ~(c.maxDailyLoss # 0 /\ c.maxDailyLoss <= 0)
  /\ ~(c.maxDrawdownPercent # 0 /\ (c.maxDrawdownPercent <= 0 \/ c.maxDrawdownPercent > 100))
  /\ ~(c.maxOpenPositions # 0 /\ c.maxOpenPositions <= 0)

\* the window is never rolled over
updateDailyPnl_NoRollover ==
  [dailyPnl |-> dailyPnl, dailyPnlResetTime |-> dailyPnlResetTime]

\* updateDailyPnl: the window after the lazy rollover at time `now`
updateDailyPnl ==
  IF now - dailyPnlResetTime >= dayMs
  THEN [dailyPnl |-> 0, dailyPnlResetTime |-> now]
  ELSE [dailyPnl |-> dailyPnl, dailyPnlResetTime |-> dailyPnlResetTime]

\* drawdownPercent >= limit * num / den, with
\* drawdownPercent = (Math.abs(totalUnrealizedPnl) / accountBalance) * 100
DrawdownAtLeast(total, accountBalance, limit, num, den) ==
  IF accountBalance = 0
  THEN AbsInt(total) # 0                 \* x/0 = Infinity; 0/0 = NaN compares false
  ELSE 100 * AbsInt(total) * den >= limit * num * accountBalance

\* marginRequired > accountBalance * tenths / 10, with
\* marginRequired = positionSizeUsd / (params.leverage || 1)
MarginAbove(positionSizeUsd, leverage, accountBalance, tenths) ==
  LET lev == IF leverage = 0 THEN 1 ELSE leverage
  IN  10 * positionSizeUsd > tenths * accountBalance * lev

Denied(reason, win) ==
  [allowed |-> FALSE, reason |-> reason, warnings |-> <<>>,
   dailyPnl |-> win.dailyPnl, dailyPnlResetTime |-> win.dailyPnlResetTime]

\* the leverage check left out
LeverageExceeded_Never(params) == FALSE

\* params.leverage && params.leverage > this.#config.maxLeverage
LeverageExceeded(params) ==
  params.leverage # 0 /\ params.leverage > config.maxLeverage

\* the second negation dropped: ... && !params.stopLossPrice && params.stopLossPercent
StopLossMissing_NoNegation(params) ==
  config.requireStopLoss /\ params.stopLossPrice = 0 /\ params.stopLossPercent # 0

\* this.#config.requireStopLoss && !params.stopLossPrice && !params.stopLossPercent
StopLossMissing(params) ==
  config.requireStopLoss /\ params.stopLossPrice = 0 /\ params.stopLossPercent = 0

\* the daily-loss warning is never raised
DailyLossNear_Never(absPnl, positionSizeUsd) == FALSE

\* Math.abs(this.#dailyPnl) + potentialLoss >= this.#config.maxDailyLoss, with
\* potentialLoss = positionSizeUsd * 0.1
DailyLossNear(absPnl, positionSizeUsd) ==
  10 * absPnl + positionSizeUsd >= 10 * config.maxDailyLoss

\* an intent for a coin already held counts as a new position
EffectivePositionCount_AlwaysNew(params, currentPositions) ==
  Len(currentPositions) + 1

\* the entry orders other calls have submitted are counted as positions too
EffectivePositionCount_WithInFlight(params, currentPositions) ==
  LET entered(t) == \E k \in 1..Len(t.calls) : t.calls[k].leg = "entry"
  IN  Len(currentPositions) + 1 + Len(SelectSeq(parked, entered))

\* existingPosition ? currentPositions.length : currentPositions.length + 1
EffectivePositionCount(params, currentPositions) ==
  LET existingPosition ==
        \E i \in 1..Len(currentPositions) : currentPositions[i].coin = params.coin
  IN  IF existingPosition THEN Len(currentPositions) ELSE Len(currentPositions) + 1

\* checkOpenPosition: the result, and the daily window it leaves (it runs
\* updateDailyPnl when it reaches the daily-loss check)
checkOpenPosition(params, currentPositions, accountBalance) ==
  LET same == [dailyPnl |-> dailyPnl, dailyPnlResetTime |-> dailyPnlResetTime]
      positionSizeUsd == params.sizeUsd
      effectivePositionCount == EffectivePositionCount(params, currentPositions)
      win == IF config.maxDailyLoss # 0 THEN updateDailyPnl ELSE same
      w1 == IF config.maxDailyLoss # 0
               /\ DailyLossNear(AbsInt(win.dailyPnl), positionSizeUsd)
            THEN <<"dailyLoss">> ELSE <<>>
      totalUnrealizedPnl == SumUnrealized(currentPositions)
      w2 == IF config.maxDrawdownPercent # 0
               /\ DrawdownAtLeast(totalUnrealizedPnl, accountBalance,
                                  config.maxDrawdownPercent, 8, 10)
            THEN w1 \o <<"drawdown">> ELSE w1
      w3 == IF MarginAbove(positionSizeUsd, params.leverage, accountBalance, 7)
            THEN w2 \o <<"margin">> ELSE w2
  IN  IF LeverageExceeded(params)
      THEN Denied("leverage", same)
      ELSE IF positionSizeUsd > config.maxPositionSizeUsd
      THEN Denied("notional", same)
      ELSE IF config.maxOpenPositions # 0
              /\ effectivePositionCount > config.maxOpenPositions
      THEN Denied("positions", same)
      ELSE IF config.maxDailyLoss # 0 /\ AbsInt(win.dailyPnl) >= config.maxDailyLoss
      THEN Denied("dailyLoss", win)
      ELSE IF config.maxDrawdownPercent # 0
              /\ DrawdownAtLeast(totalUnrealizedPnl, accountBalance,
                                 config.maxDrawdownPercent, 1, 1)
      THEN Denied("drawdown", win)
      ELSE IF StopLossMissing(params)
      THEN Denied("stopLoss", win)
      ELSE IF MarginAbove(positionSizeUsd, params.leverage, accountBalance, 9)
      THEN Denied("margin", win)
      ELSE [allowed |-> TRUE, reason |-> "none", warnings |-> w3,
            dailyPnl |-> win.dailyPnl, dailyPnlResetTime |-> win.dailyPnlResetTime]

\* Keep only last 1000 trades
TradesLogCap == 1000

\* the newest entry is dropped instead of the oldest
KeepLast_DropNewest(pushed) ==
  IF Len(pushed) > TradesLogCap THEN SubSeq(pushed, 1, TradesLogCap) ELSE pushed

\* if (this.#tradesLog.length > 1000) this.#tradesLog = this.#tradesLog.slice(-1000)
KeepLast(pushed) ==
  IF Len(pushed) > TradesLogCap
  THEN SubSeq(pushed, Len(pushed) - TradesLogCap + 1, Len(pushed))
  ELSE pushed

\* the pnl is added before the rollover, which then discards it
recordTrade_AddThenRoll(pnl) ==
  LET pushed == Append(tradesLog, [timestamp |-> now, pnl |-> pnl])
  IN  [dailyPnl |-> IF now - dailyPnlResetTime >= dayMs THEN 0 ELSE dailyPnl + pnl,
       dailyPnlResetTime |-> updateDailyPnl.dailyPnlResetTime,
       tradesLog |-> KeepLast(pushed)]

\* recordTrade(pnl): the window and the log it leaves
recordTrade(pnl) ==
  LET win == updateDailyPnl
      pushed == Append(tradesLog, [timestamp |-> now, pnl |-> pnl])
  IN  [dailyPnl |-> win.dailyPnl + pnl,
       dailyPnlResetTime |-> win.dailyPnlResetTime,
       tradesLog |-> KeepLast(pushed)]

\* getDailyPnl(): the value returned and the window it leaves
getDailyPnl ==
  LET win == updateDailyPnl
  IN  [value |-> win.dailyPnl,
       dailyPnl |-> win.dailyPnl, dailyPnlResetTime |-> win.dailyPnlResetTime]

RECURSIVE SumPnl(_)
\* trades.reduce((sum, t) => sum + t.pnl, 0)
SumPnl(trades) == IF trades = <<>> THEN 0 ELSE trades[1].pnl + SumPnl(Tail(trades))

\* the statistics read restarts the window whenever it is called
getStats_AlwaysRolls ==
  [value |-> [dailyPnl |-> 0, totalTrades |-> 0, totalPnl |-> 0, winningTrades |-> 0],
   dailyPnl |-> 0, dailyPnlResetTime |-> now]

\* getStats(): the value returned (avgPnl and winRate as their numerators over
\* totalTrades) and the window it leaves
getStats ==
  LET win == updateDailyPnl
      inDay(t) == now - t.timestamp < 24 * 60 * 60 * 1000
      won(t) == t.pnl > 0
      dailyTrades == SelectSeq(tradesLog, inDay)
  IN  [value |-> [dailyPnl |-> win.dailyPnl,
                  totalTrades |-> Len(dailyTrades),
                  totalPnl |-> SumPnl(dailyTrades),
                  winningTrades |-> Len(SelectSeq(dailyTrades, won))],
       dailyPnl |-> win.dailyPnl, dailyPnlResetTime |-> win.dailyPnlResetTime]

\* getConfig(): the copy returned
getConfig == config

\* { ...this.#config, ...config }: a property of the argument overrides the
\* held one; `keys` names the properties the argument carries
MergeConfig(partial) ==
  LET v(k) == IF k \in partial.keys THEN partial[k] ELSE config[k]
  IN  RiskConfig(v("maxLeverage"), v("maxPositionSizeUsd"), v("maxDailyLoss"),
                 v("maxDrawdownPercent"), v("maxOpenPositions"), v("requireStopLoss"),
                 config.given \cup (partial.keys \cap LimitKeys))

\* the merged config is assigned before it is validated
updateConfig_AssignFirst(partial) ==
  LET merged == MergeConfig(partial)
  IN  [threw |-> ~validateConfig(merged), config |-> merged]

\* updateConfig(config): whether it throws, and the config held afterwards
updateConfig(partial) ==
  LET merged == MergeConfig(partial)
  IN  IF validateConfig(merged)
      THEN [threw |-> FALSE, config |-> merged]
      ELSE [threw |-> TRUE, config |-> config]

----------------------------------------------------------------------------
(* Inputs of the RiskManager specification *)

\* the limits given with a value other than 0
NonZero(dl, dd, mp) ==
  (IF dl # 0 THEN {"maxDailyLoss"} ELSE {})
  \cup (IF dd # 0 THEN {"maxDrawdownPercent"} ELSE {})
  \cup (IF mp # 0 THEN {"maxOpenPositions"} ELSE {})

\* riskConfig objects a caller may pass to the constructor
ConfigCandidates ==
  { RiskConfig(3, 500, dl, dd, mp, sl, NonZero(dl, dd, mp)) :
      dl \in {0, 100}, dd \in {0, 20}, mp \in {0, 1, 2}, sl \in BOOLEAN }
  \cup
  { RiskConfig(60, 500, 0, 0, 0, FALSE, {}), RiskConfig(3, 0, 0, 0, 0, FALSE, {}) }

\* the configs the two-purpose specifications start from
RiskConfigs ==
  { c \in ConfigCandidates :
      /\ validateConfig(c)
      /\ (c.maxDailyLoss # 0) = (c.maxDrawdownPercent # 0)
      /\ (c.maxDailyLoss # 0) = (c.maxOpenPositions # 0) }

Pos(coin, side, size, upnl) ==
  [coin |-> coin, side |-> side, size |-> size, unrealizedPnl |-> upnl]

\* account snapshots getPositions may return
PositionLists ==
  { <<>>,
    << Pos("A", "short", 5, -25) >>,
    << Pos("A", "long", 20, 10), Pos("B", "long", 25, -30) >> }

\* availableBalance values getBalance may return
Balances == {0, 110, 125, 1000}

\* intents handed to checkOpenPosition directly
CheckParam(c, sz, lv, slPrice, slPercent) ==
  [coin |-> c, sizeUsd |-> sz, leverage |-> lv,
   stopLossPrice |-> slPrice, stopLossPercent |-> slPercent]

\* intents within the leverage and notional limits, with and without a
\* stop-loss, and intents beyond one or both of these limits
CheckParams ==
  { CheckParam(c, sz, 2, 0, sl) : c \in {"A", "B"}, sz \in {50, 100}, sl \in {0, 5} }
  \cup
  { CheckParam(c, 600, 5, 0, 0) : c \in {"A", "B"} }
  \cup
  { CheckParam("A", 100, 2, 95, 0), CheckParam("A", 600, 2, 0, 5),
    CheckParam("B", 100, 5, 0, 5), CheckParam("A", 100, 5, 0, 0) }

\* realized P&L values recorded by closes
PnlValues == {-95, 100}

\* realized P&L values recorded over the life of one RiskManager
GatePnls == PnlValues \cup {0}

\* riskConfig objects handed to the constructor: limits present, absent,
\* present with the value 0, at the ends of their ranges and outside them
GateCandidates ==
  { RiskConfig(3, 500, 100, 20, 1, TRUE, LimitKeys),
    RiskConfig(50, 500, 0, 100, 0, FALSE, {"maxDrawdownPercent"}),
    RiskConfig(3, 500, 0, 0, 0, FALSE, {"maxOpenPositions"}),
    RiskConfig(0, 500, 0, 0, 0, FALSE, {}),
    RiskConfig(51, 500, 0, 0, 0, FALSE, {}),
    RiskConfig(3, 0, 0, 0, 0, FALSE, {}),
    RiskConfig(3, 500, -5, 0, 0, FALSE, {"maxDailyLoss"}),
    RiskConfig(3, 500, 0, 101, 0, FALSE, {"maxDrawdownPercent"}),
    RiskConfig(3, 500, 0, 0, -1, FALSE, {"maxOpenPositions"}) }

\* an argument of updateConfig: the properties it carries and their values
Partial(keys, ml, mps, dl, dd, mp, sl) ==
  [keys |-> keys, maxLeverage |-> ml, maxPositionSizeUsd |-> mps, maxDailyLoss |-> dl,
   maxDrawdownPercent |-> dd, maxOpenPositions |-> mp, requireStopLoss |-> sl]

\* arguments handed to updateConfig
ConfigUpdates ==
  { Partial({"maxLeverage"}, 5, 0, 0, 0, 0, FALSE),
    Partial({"maxLeverage"}, 60, 0, 0, 0, 0, FALSE),
    Partial({"maxOpenPositions"}, 0, 0, 0, 0, 2, FALSE),
    Partial({"maxOpenPositions"}, 0, 0, 0, 0, 0, FALSE),
    Partial({"maxOpenPositions", "requireStopLoss"}, 0, 0, 0, 0, -1, FALSE),
    Partial({"maxDailyLoss", "maxDrawdownPercent"}, 0, 0, 50, 120, 0, FALSE) }

\* intents, snapshots and balances handed to checkOpenPosition between
\* reconfigurations
GateCheckParams ==
  { CheckParam("A", 100, 5, 0, 5), CheckParam("B", 100, 2, 0, 0) }

GatePositionLists == { <<>>, << Pos("A", "short", 5, -25) >> }

GateBalances == {1000}

NoCheck == [called |-> FALSE, api |-> "none"]

----------------------------------------------------------------------------
(* The exchange as the toolkit sees it *)

\* String.prototype.toUpperCase on the names of the model
ToUpper(name) ==
  CASE name = "a" -> "A"
    [] name = "kB" -> "KB"
    [] OTHER -> name

\* meta().universe: perp assets in universe order (index = place - 1); the
\* exchange lists names with a lower-case prefix too
PerpUniverse ==
  << [name |-> "A", szDecimals |-> 0], [name |-> "B", szDecimals |-> 1],
     [name |-> "kB", szDecimals |-> 0] >>

\* spotMeta().tokens and spotMeta().universe
SpotTokens ==
  << [name |-> "USDC", index |-> 0, szDecimals |-> 2],
     [name |-> "A", index |-> 1, szDecimals |-> 1] >>

SpotUniverse ==
  << [name |-> "A/USDC", index |-> 0, tokens |-> <<1, 0>>] >>

\* names a caller may ask a cache for
AssetKeys == {"A", "B", "USDC", "A/USDC", "kB", "KB"}

NoAsset == [known |-> FALSE]

\* l2Book answers for the book of `coin`: the top of each side (0: that
\* side is empty)
BookTops(coin) ==
  IF coin = "B" THEN { [bestBid |-> 10143, bestAsk |-> 10157] }
  ELSE { [bestBid |-> 99, bestAsk |-> 101], [bestBid |-> 0, bestAsk |-> 101] }

\* allMids answers: the mid price of the coin of a protective leg
AllMids == {10001}

NullMap == [loaded |-> FALSE]

\* the cache built from meta.universe.forEach((asset, index) => ...)
BuildPerpMap ==
  [loaded |-> TRUE,
   map |-> [k \in AssetKeys |->
              IF \E i \in 1..Len(PerpUniverse) : PerpUniverse[i].name = k
              THEN LET i == CHOOSE j \in 1..Len(PerpUniverse) :
                              /\ PerpUniverse[j].name = k
                              /\ \A l \in 1..Len(PerpUniverse) :
                                   PerpUniverse[l].name = k => l <= j
                   IN  [known |-> TRUE, index |-> i - 1, pairName |-> k,
                        szDecimals |-> PerpUniverse[i].szDecimals]
              ELSE NoAsset]]

RECURSIVE SpotFold(_, _)
\* spotMeta.universe.forEach((pair) => ...) from pair i on, over the map m so far
SpotFold(i, m) ==
  IF i > Len(SpotUniverse) THEN m
  ELSE LET pair == SpotUniverse[i]
           bases == { t \in 1..Len(SpotTokens) : SpotTokens[t].index = pair.tokens[1] }
       IN  IF bases = {} THEN SpotFold(i + 1, m)
           ELSE LET baseToken == SpotTokens[CHOOSE t \in bases : TRUE]
                    spotInfo == [known |-> TRUE, index |-> pair.index,
                                 pairName |-> pair.name,
                                 szDecimals |-> baseToken.szDecimals]
                    tokenName == ToUpper(baseToken.name)
                    m1 == IF m[tokenName].known THEN m
                          ELSE [m EXCEPT ![tokenName] = spotInfo]
                IN  SpotFold(i + 1, [m1 EXCEPT ![ToUpper(pair.name)] = spotInfo])

BuildSpotMap == [loaded |-> TRUE, map |-> SpotFold(1, [k \in AssetKeys |-> NoAsset])]

\* getAssetIndex once the cache `m` of the market is loaded
LookupAsset(m, coin, market) ==
  LET info == m.map[ToUpper(coin)]
  IN  IF ~info.known THEN NoAsset
      ELSE IF market = "spot"
      THEN [known |-> TRUE, index |-> 10000 + info.index, pairName |-> info.pairName,
            szDecimals |-> info.szDecimals]
      ELSE [known |-> TRUE, index |-> info.index, pairName |-> coin,
            szDecimals |-> info.szDecimals]

----------------------------------------------------------------------------
(* Sizes *)

RECURSIVE Pow10(_)
Pow10(d) == IF d = 0 THEN 1 ELSE 10 * Pow10(d - 1)

RECURSIVE StripZeros(_)
\* an integer written in decimal with its trailing zeros removed
StripZeros(u) == IF u > 0 /\ u % 10 = 0 THEN StripZeros(u \div 10) ELSE u

CeilDiv(n, d) == -((-n) \div d)

\* a quantity that rounds to zero is let through
SizeTooSmall_Never(roundedRaw) == FALSE

\* if (roundedRaw <= 0) throw
SizeTooSmall(roundedRaw) == roundedRaw <= 0

\* formatSize(num/den, decimals, rounding): the quantity the returned string
\* denotes, in units of 10^-decimals, or the error thrown.
\* roundedRaw.toFixed(decimals).replace(/\.?0+$/, ''): with decimals > 0 the
\* match stays behind the decimal point (the value is kept); with
\* decimals = 0 there is no point and the trailing zeros of the integer go.
\* the result carries the request (num/den, rounding) it was computed from.
formatSize(num, den, decimals, rounding) ==
  IF num <= 0 THEN [ok |-> FALSE, err |-> "invalidSize"]
  ELSE LET factor == Pow10(decimals)
           roundedRaw == IF rounding = "up"
                         THEN CeilDiv(num * factor, den)
                         ELSE (num * factor) \div den
       IN  IF SizeTooSmall(roundedRaw) THEN [ok |-> FALSE, err |-> "sizeTooSmall"]
           ELSE [ok |-> TRUE, decimals |-> decimals, rounded |-> roundedRaw,
                 units |-> IF decimals = 0 THEN StripZeros(roundedRaw) ELSE roundedRaw,
                 num |-> num, den |-> den, rounding |-> rounding]

NoSize == [ok |-> FALSE, err |-> "none"]

----------------------------------------------------------------------------
(* Prices.  A price string is the integer number of 10^-5 units it denotes
   (trailing zeros carry no value: parseFloat(...).toString() drops them). *)

\* this.#defaultSlippage = config.defaultSlippagePercent || 1
defaultSlippage == 1

RECURSIVE Digits(_)
\* the number of digits of the integer part n >= 0 of a number
Digits(n) == IF n < 10 THEN 1 ELSE 1 + Digits(n \div 10)

\* (num/den).toFixed(d) for a positive number: the nearest multiple of 10^-d,
\* the larger one on a tie, in units of 10^-d
toFixed(num, den, d) ==
  (num \div den) * Pow10(d) + (2 * (num % den) * Pow10(d) + den) \div (2 * den)

\* (num/den).toPrecision(p) for a number >= 1: the nearest number of p
\* significant digits, the larger one on a tie, in units of 10^-5
toPrecision(num, den, p) ==
  LET e == Digits(num \div den)
      n == IF e <= p THEN toFixed(num, den, p - e)
           ELSE toFixed(num, den * Pow10(e - p), 0)
  IN  n * Pow10(e - p + 5)

----------------------------------------------------------------------------
(* One toolkit call: the state between its awaits *)

NoResult == [success |-> FALSE, orderId |-> 0, error |-> "pending", cause |-> 0]

IdleRun ==
  [op |-> "none", pc |-> "idle", params |-> <<>>, calls |-> <<>>, inflight |-> {},
   posFlow |-> "off", balFlow |-> "off", posOk |-> FALSE, balOk |-> FALSE,
   positions |-> <<>>, balance |-> 0,
   riskCheck |-> "none", riskReason |-> "none",
   asset |-> NoAsset, bookTop |-> [bestBid |-> 0, bestAsk |-> 0], orderSize |-> NoSize,
   mid |-> 0, refNum |-> 0, refDen |-> 1, orderId |-> 0, position |-> <<>>,
   recorded |-> <<>>, result |-> NoResult]

\* the intents openPosition is called with
OpenIntent(coin, side, market, sizeUsd, sizeCoin, sl, tp, orderType) ==
  [coin |-> coin, side |-> side, market |-> market, sizeUsd |-> sizeUsd,
   sizeCoin |-> sizeCoin, leverage |-> 2, stopLossPrice |-> 0, stopLossPercent |-> sl,
   takeProfitPrice |-> 0, takeProfitPercent |-> tp, orderType |-> orderType,
   limitPrice |-> IF orderType = "limit" THEN 100 ELSE 0, slippagePercent |-> 0]

OpenIntents ==
  { OpenIntent("A", "long", "perp", 100, 0, 0, 0, "market"),
    OpenIntent("A", "long", "perp", 100, 0, 5, 0, "market"),
    OpenIntent("A", "long", "perp", 100, 0, 0, 10, "market"),
    [OpenIntent("A", "short", "perp", 250, 0, 5, 10, "market") EXCEPT !.slippagePercent = 2],
    OpenIntent("A", "long", "perp", 0, 12, 5, 0, "market"),
    OpenIntent("A", "long", "perp", 0, 12, 5, 0, "limit"),
    OpenIntent("A", "long", "perp", 0, 0, 5, 0, "market"),
    OpenIntent("A", "long", "perp", 0, 20, 5, 0, "limit"),
    OpenIntent("A", "long", "perp", 0, -3, 5, 0, "limit"),
    OpenIntent("A", "long", "perp", -100, 0, 5, 0, "limit"),
    OpenIntent("A", "long", "perp", 600, 0, 5, 0, "market"),
    OpenIntent("B", "long", "perp", 100, 0, 5, 0, "market"),
    OpenIntent("A", "long", "spot", 100, 0, 5, 10, "market"),
    OpenIntent("B", "long", "spot", 100, 0, 0, 0, "market"),
    OpenIntent("a", "long", "spot", 0, 12, 0, 0, "limit"),
    OpenIntent("kB", "long", "perp", 0, 12, 5, 0, "limit"),
    [OpenIntent("A", "long", "perp", 0, 12, 5, 0, "limit") EXCEPT !.limitPrice = 0] }

\* the requests closePosition is called with (percent 0: not supplied)
CloseIntents ==
  { [coin |-> c, percent |-> pc, slippagePercent |-> IF pc = 50 THEN 2 ELSE 0] :
      c \in {"A", "B"}, pc \in {0, 10, 50, 100, 150} }

\* answers of exchangeClient.order: the call rejects ("throw"), the response has
\* no statuses array ("malformed"), or statuses[0] is {error}, {resting: {oid}},
\* {filled: {oid}} or another object with no oid ("waiting")
OrderAnswers == {"throw", "malformed", "error", "resting", "filled", "waiting"}

\* the oid the exchange gives the order of the k-th call of a run
OidOf(k) == 100 + k

\* normalizedSide === 'long' || normalizedSide === 'buy'
IsBuy(p) == p.side \in {"long", "buy"}

\* closePosition: const isBuy = position.side === 'short'
CloseIsBuy(position) == position.side = "short"

\* the b (is-buy) field of the order submitted for `leg`
OrderIsBuy(r, leg) ==
  CASE leg = "entry" -> IsBuy(r.params)
    [] leg \in {"sl", "tp"} -> ~IsBuy(r.params)
    [] leg = "close" -> CloseIsBuy(r.position)
    [] OTHER -> FALSE

\* the r (reduce-only) field of the order submitted for `leg`
OrderReduceOnly(leg) == leg \in {"sl", "tp", "close"}

\* the p (price) and t (time in force, or trigger) fields of the order
\* submitted for `leg`
OrderTerms(r, leg) ==
  LET p == r.params
      slippage == IF p.slippagePercent # 0 THEN p.slippagePercent ELSE defaultSlippage
      rawPrice == IF OrderIsBuy(r, leg) THEN r.bookTop.bestAsk * (100 + slippage)
                  ELSE r.bookTop.bestBid * (100 - slippage)
      fixedPrice == IF leg = "sl" THEN p.stopLossPrice ELSE p.takeProfitPrice
      percent == IF leg = "sl" THEN p.stopLossPercent ELSE p.takeProfitPercent
      away == IF IsBuy(p) = (leg = "sl") THEN 100 - percent ELSE 100 + percent
  IN  CASE leg = "entry" /\ p.orderType = "limit" /\ p.limitPrice # 0 ->
             [price |-> toFixed(p.limitPrice, 1, 5), tif |-> "Gtc"]
        [] leg \in {"entry", "close"} ->
             [price |-> toPrecision(rawPrice, 100, 5), tif |-> "Ioc"]
        [] leg \in {"sl", "tp"} ->
             [price |-> IF fixedPrice # 0 THEN toFixed(fixedPrice, 1, 5)
                        ELSE toFixed(r.mid * away, 100, 5),
              tif |-> "trigger"]
        [] OTHER -> [price |-> 0, tif |-> "none"]

\* a network call begins: it is appended to the run's calls and is in flight
Issue(r, api, leg, pc) ==
  [r EXCEPT !.calls = Append(@, [api |-> api, leg |-> leg, resp |-> "pending",
                                  size |-> r.orderSize,
                                  terms |-> IF api = "order" THEN OrderTerms(r, leg)
                                            ELSE [price |-> 0, tif |-> "none"],
                                  refNum |-> r.refNum,
                                  refDen |-> r.refDen, checked |-> r.riskCheck,
                                  buy |-> api = "order" /\ OrderIsBuy(r, leg),
                                  reduceOnly |-> api = "order" /\ OrderReduceOnly(leg),
                                  concurrent |-> r.inflight]),
            !.inflight = @ \cup {Len(r.calls) + 1},
            !.pc = pc]

\* the answer `resp` to call k arrives
Answered(r, k, resp) ==
  [r EXCEPT !.calls[k].resp = resp, !.inflight = @ \ {k}]

\* the pending call of `api` made for `leg`
PendingCall(r, api, leg) ==
  { k \in r.inflight : r.calls[k].api = api /\ r.calls[k].leg = leg }

\* the catch block: return { success: false, error: error.message }
Fail(r, err, cause) ==
  [r EXCEPT !.pc = "done",
            !.result = [success |-> FALSE, orderId |-> 0, error |-> err, cause |-> cause]]

\* return { success: true, data: { orderId } }
Succeed(r, orderId) ==
  [r EXCEPT !.pc = "done",
            !.result = [success |-> TRUE, orderId |-> orderId, error |-> "none", cause |-> 0]]

----------------------------------------------------------------------------
(* openPosition and closePosition: what runs between two awaits *)

\* params.orderType === 'limit' && !!params.limitPrice
IsLimitOrder(p) == p.orderType = "limit" /\ p.limitPrice # 0

WantsStopLoss(p) == p.stopLossPrice # 0 \/ p.stopLossPercent # 0

WantsTakeProfit(p) == p.takeProfitPrice # 0 \/ p.takeProfitPercent # 0

\* params.percent || 100
ClosePercent(p) == IF p.percent = 0 THEN 100 ELSE p.percent

\* an error status is taken for an accepted order
isErrorStatus_Never(status) == FALSE

\* typeof status === 'object' && status !== null && 'error' in status
isErrorStatus(status) == status = "error"

\* the oid of the status is not read
extractOrderId_Zero(status, k) == 0

\* extractOrderId of the status answered to call k
extractOrderId(status, k) == IF status \in {"resting", "filled"} THEN OidOf(k) ELSE 0

\* the take-profit leg, then the final success
StartTakeProfit(r) ==
  IF WantsTakeProfit(r.params)
  THEN Issue(r, "allMids", "tp", "legMids")
  ELSE Succeed(r, r.orderId)

\* the stop-loss leg
StartStopLoss(r) ==
  IF WantsStopLoss(r.params)
  THEN Issue(r, "allMids", "sl", "legMids")
  ELSE StartTakeProfit(r)

\* the entry order has been answered
AfterEntry(r, k, ans) ==
  LET r1 == Answered(r, k, ans)
  IN  IF ans = "throw" THEN Fail(r1, "gateway", k)
      ELSE IF ans = "malformed" THEN Fail(r1, "malformed", k)
      ELSE IF isErrorStatus(ans) THEN Fail(r1, "orderRejected", k)
      ELSE LET orderId == extractOrderId(ans, k)
               r2 == [r1 EXCEPT !.orderId = orderId]
           IN  IF r.params.market = "spot" THEN Succeed(r2, orderId)
               ELSE StartStopLoss(r2)

\* a protective leg has been answered: the returned statuses are not read
AfterLeg(r, k, ans) ==
  LET r1 == Answered(r, k, ans)
  IN  IF ans = "throw" THEN Fail(r1, "gateway", k)
      ELSE IF r.calls[k].leg = "sl" THEN StartTakeProfit(r1)
      ELSE Succeed(r1, r1.orderId)

\* the entry order is submitted
SubmitEntry(r) == Issue(r, "order", "entry", "entry")

\* the leverage is set for spot orders too
SetLeverage_Always(r) == Issue(r, "updateLeverage", "leverage", "leverage")

\* Set leverage (perps only)
SetLeverage(r) ==
  IF r.params.market = "spot" THEN SubmitEntry(r)
  ELSE Issue(r, "updateLeverage", "leverage", "leverage")

\* the leverage is set before the size is computed and validated
ComputeSize_LeverageFirst(r) ==
  LET p == r.params
      limit == IsLimitOrder(p)
      priceNum == IF limit THEN p.limitPrice ELSE r.bookTop.bestBid + r.bookTop.bestAsk
      priceDen == IF limit THEN 1 ELSE 2
      fs == IF p.sizeUsd # 0
            THEN formatSize(p.sizeUsd * priceDen, priceNum, r.asset.szDecimals, "up")
            ELSE formatSize(p.sizeCoin, 1, r.asset.szDecimals, "down")
      set == Issue(r, "updateLeverage", "leverage", "leverage")
  IN  IF p.sizeUsd # 0 /\ priceNum = 0 THEN Fail(set, "noPrice", 0)
      ELSE IF p.sizeUsd = 0 /\ p.sizeCoin = 0 THEN Fail(set, "noSize", 0)
      ELSE IF ~fs.ok THEN Fail(set, fs.err, 0)
      ELSE SetLeverage([r EXCEPT !.orderSize = fs, !.refNum = priceNum,
                                 !.refDen = priceDen])

\* Calculate order size; r.bookTop is 0/0 when no book was read
ComputeSize(r) ==
  LET p == r.params
      limit == IsLimitOrder(p)
      priceNum == IF limit THEN p.limitPrice ELSE r.bookTop.bestBid + r.bookTop.bestAsk
      priceDen == IF limit THEN 1 ELSE 2
      fs == IF p.sizeUsd # 0
            THEN formatSize(p.sizeUsd * priceDen, priceNum, r.asset.szDecimals, "up")
            ELSE formatSize(p.sizeCoin, 1, r.asset.szDecimals, "down")
  IN  IF p.sizeUsd # 0 /\ priceNum = 0 THEN Fail(r, "noPrice", 0)
      ELSE IF p.sizeUsd = 0 /\ p.sizeCoin = 0 THEN Fail(r, "noSize", 0)
      ELSE IF ~fs.ok THEN Fail(r, fs.err, 0)
      ELSE SetLeverage([r EXCEPT !.orderSize = fs, !.refNum = priceNum,
                                 !.refDen = priceDen])

\* openPosition once the asset is resolved
AfterAsset(r) ==
  IF ~IsLimitOrder(r.params) \/ r.params.sizeUsd # 0
  THEN Issue(r, "l2Book", "book", "book")
  ELSE ComputeSize(r)

\* closePosition once the asset is resolved
CloseAfterAsset(r) ==
  LET fs == formatSize(r.position.size * ClosePercent(r.params), 100,
                       r.asset.szDecimals, "down")
  IN  IF ~fs.ok THEN Fail(r, fs.err, 0)
      ELSE Issue([r EXCEPT !.orderSize = fs], "l2Book", "book", "book")

MarketOf(r) == IF r.op = "close" THEN "perp" ELSE r.params.market

\* getAssetIndex with the market's cache `m` loaded
Resolve(r, m) ==
  LET normalizedCoin == ToUpper(r.params.coin)
      info == LookupAsset(m, normalizedCoin, MarketOf(r))
  IN  IF ~info.known THEN Fail(r, "unknownAsset", 0)
      ELSE IF r.op = "close" THEN CloseAfterAsset([r EXCEPT !.asset = info])
      ELSE AfterAsset([r EXCEPT !.asset = info])

\* getAssetIndex: the universe is fetched when the market's cache is null
GetAssetIndex(r) ==
  LET m == IF MarketOf(r) = "spot" THEN spotAssetMap ELSE assetMap
  IN  IF m.loaded THEN Resolve(r, m)
      ELSE Issue(r, IF MarketOf(r) = "spot" THEN "spotMeta" ELSE "meta", "asset", "meta")

\* the risk check is skipped for every request
RiskGated_Never(p) == FALSE

\* this.#riskManager && market === 'perp'
RiskGated(p) == riskEnabled /\ p.market = "perp"

\* a denied request goes on to execution
AfterRiskCheck_NoReturn(r, res) ==
  GetAssetIndex([r EXCEPT !.riskCheck = IF res.allowed THEN "allowed" ELSE "denied",
                          !.riskReason = res.reason])

\* if (!riskCheck.allowed) return { success: false, ... }
AfterRiskCheck(r, res) ==
  IF ~res.allowed
  THEN Fail([r EXCEPT !.riskCheck = "denied", !.riskReason = res.reason], "risk", 0)
  ELSE GetAssetIndex([r EXCEPT !.riskCheck = "allowed"])

\* Promise.all([this.getPositions(), this.getBalance()]): both begin at once
StartRiskFetch(r) ==
  Issue(Issue([r EXCEPT !.posFlow = "state", !.balFlow = "state"],
              "clearinghouseState", "positions", "risk"),
        "clearinghouseState", "balance", "risk")

\* openPosition(p) up to its first await
StartOpen(p) ==
  LET r0 == [IdleRun EXCEPT !.op = "open", !.params = p]
  IN  IF RiskGated(p) THEN StartRiskFetch(r0) ELSE GetAssetIndex(r0)

\* the trade is recorded whatever the percentage closed
RecordsClose_Always(p) == riskEnabled

\* this.#riskManager && closePercent === 100
RecordsClose(p) == riskEnabled /\ ClosePercent(p) = 100

----------------------------------------------------------------------------
(* HyperliquidAgent (src/src/agent/agent.ts): one async function runs from one
   await to the next without interruption.  `ticks` holds the #tick calls
   suspended at an await, `startsPending` the start() calls whose skipped
   first tick has returned and whose continuation has not run yet, `manual`
   the on-demand action whose toolkit call is in flight.  `timers` is the
   number of interval timers armed and `intervalHandle` tells whether
   #intervalHandle is defined (it then names the timer armed last).
   `tradeLogs` is the
   length of #tradeLogs; `invoked` counts the calls made of openPosition,
   closePosition and cancelOrders, `succeeded` the results with success =
   true that openPosition and closePosition returned to the agent. *)

\* the agent after its constructor
NoAgent ==
  [paperTrading |-> FALSE, isRunning |-> FALSE, isExecuting |-> FALSE,
   intervalHandle |-> FALSE, timers |-> 0,
   ticks |-> <<>>, startsPending |-> 0, manual |-> "none",
   tickCount |-> 0, totalTrades |-> 0, tradeLogs |-> 0, errors |-> 0,
   invoked |-> 0, succeeded |-> 0, starts |-> 0, fired |-> 0, requested |-> 0]

\* the action lists generateActions answers with
AgentActionLists ==
  { <<"set_leverage", "cancel_orders", "open_position">> }

\* a tick starts whether or not another one is executing
tick_NoGuard(a, awaited) ==
  [a EXCEPT !.isExecuting = TRUE, !.tickCount = @ + 1,
            !.ticks = Append(@, [awaited |-> awaited, pc |-> "gather", todo |-> <<>>])]

\* #tick() up to its first await (gatherContext), or its return when a tick
\* is executing; `awaited`: the call is the one start() awaits
tick(a, awaited) ==
  IF a.isExecuting
  THEN [a EXCEPT !.startsPending = IF awaited THEN @ + 1 ELSE @]
  ELSE [a EXCEPT !.isExecuting = TRUE, !.tickCount = @ + 1,
                 !.ticks = Append(@, [awaited |-> awaited, pc |-> "gather",
                                      todo |-> <<>>])]

\* start() after its first tick: this.#intervalHandle = setInterval(...)
setInterval(a) == [a EXCEPT !.timers = @ + 1, !.intervalHandle = TRUE]

\* the toolkit is called in paper trading mode too
executeAction_NoPaperCheck(a, type, success) ==
  IF type \notin {"get_markets", "get_positions", "open_position", "close_position",
                  "cancel_orders", "get_balance"}
  THEN a
  ELSE LET trade == type \in {"open_position", "close_position"}
       IN  [a EXCEPT !.invoked = IF trade \/ type = "cancel_orders" THEN @ + 1 ELSE @,
                     !.succeeded = IF trade /\ success THEN @ + 1 ELSE @,
                     !.totalTrades = IF trade /\ success THEN @ + 1 ELSE @,
                     !.tradeLogs = @ + 1]

\* #executeAction(action) with the toolkit returning a result of `success`:
\* nothing in paper trading mode or for an unknown type; otherwise the
\* toolkit action is invoked, totalTrades is incremented for an open or a
\* close whose result is a success, and the action is logged
executeAction(a, type, success) ==
  IF a.paperTrading
     \/ type \notin {"get_markets", "get_positions", "open_position", "close_position",
                      "cancel_orders", "get_balance"}
  THEN a
  ELSE LET trade == type \in {"open_position", "close_position"}
       IN  [a EXCEPT !.invoked = IF trade \/ type = "cancel_orders" THEN @ + 1 ELSE @,
                     !.succeeded = IF trade /\ success THEN @ + 1 ELSE @,
                     !.totalTrades = IF trade /\ success THEN @ + 1 ELSE @,
                     !.tradeLogs = @ + 1]

\* the end of the i-th suspended tick: catch (when it failed), finally, and
\* the continuation of the start() that awaited it
endTick(a, i, failed) ==
  LET a1 == [a EXCEPT !.isExecuting = FALSE,
                      !.errors = IF failed THEN @ + 1 ELSE @,
                      !.ticks = SubSeq(@, 1, i - 1) \o SubSeq(@, i + 1, Len(@))]
  IN  IF a.ticks[i].awaited THEN setInterval(a1) ELSE a1

----------------------------------------------------------------------------
(* The RiskManager used directly *)

InitRisk ==
  /\ riskEnabled = TRUE
  /\ config \in RiskConfigs
  /\ dailyPnl = 0
  /\ now = 0
  /\ dailyPnlResetTime = 0
  /\ tradesLog = <<>>
  /\ lastCheck = NoCheck
  /\ assetMap = NullMap
  /\ spotAssetMap = NullMap
  /\ run = IdleRun
  /\ parked = <<>>
  /\ agent = NoAgent
  /\ opsStarted = 0

\* time passes
Tick ==
  /\ lastCheck.api = "none"
  /\ now < MaxTicks * TickMs
  /\ now' = now + TickMs
  /\ UNCHANGED <<riskVars, lastCheck, toolkitVars, agent>>

\* a caller invokes checkOpenPosition(params, currentPositions, accountBalance)
\* with arguments from the given sets, after a call of one of the given kinds
CheckOpenOf(paramSet, listSet, balanceSet, after) ==
  \E params \in paramSet, ps \in listSet, bal \in balanceSet :
    LET res == checkOpenPosition(params, ps, bal)
    IN  /\ lastCheck.api \in after
        /\ dailyPnl' = res.dailyPnl
        /\ dailyPnlResetTime' = res.dailyPnlResetTime
        /\ lastCheck' = [called |-> TRUE, api |-> "checkOpenPosition",
                         params |-> params, positions |-> ps,
                         balance |-> bal, now |-> now,
                         preDailyPnl |-> dailyPnl, preResetTime |-> dailyPnlResetTime,
                         preLog |-> tradesLog, preConfig |-> config,
                         prev |-> lastCheck,
                         allowed |-> res.allowed, reason |-> res.reason,
                         warnings |-> res.warnings]
        /\ UNCHANGED <<riskEnabled, config, tradesLog, now, toolkitVars, agent>>

RiskCheckOpen == CheckOpenOf(CheckParams, PositionLists, Balances, {"none"})

\* the number of recordTrade calls made in this behaviour
RecordsMade ==
  LET made(t) == t.pnl \in GatePnls
  IN  Len(SelectSeq(tradesLog, made))

\* a caller invokes recordTrade(pnl) with a pnl of the given set
RecordTradeOf(pnls) ==
  \E pnl \in pnls :
    LET r == recordTrade(pnl)
    IN  /\ lastCheck.api = "none"
        /\ RecordsMade < MaxRecords
        /\ dailyPnl' = r.dailyPnl
        /\ dailyPnlResetTime' = r.dailyPnlResetTime
        /\ tradesLog' = r.tradesLog
        /\ lastCheck' = [called |-> FALSE, api |-> "recordTrade", pnl |-> pnl,
                         now |-> now, preDailyPnl |-> dailyPnl,
                         preResetTime |-> dailyPnlResetTime,
                         preLog |-> tradesLog, preConfig |-> config]
        /\ UNCHANGED <<riskEnabled, config, now, toolkitVars, agent>>

RiskRecordTrade == RecordTradeOf(PnlValues)

\* a caller invokes getDailyPnl()
RiskGetDailyPnl ==
  LET r == getDailyPnl
  IN  /\ lastCheck.api = "none"
      /\ dailyPnl' = r.dailyPnl
      /\ dailyPnlResetTime' = r.dailyPnlResetTime
      /\ lastCheck' = [called |-> FALSE, api |-> "getDailyPnl", value |-> r.value,
                       now |-> now, preDailyPnl |-> dailyPnl,
                       preResetTime |-> dailyPnlResetTime,
                       preLog |-> tradesLog, preConfig |-> config]
      /\ UNCHANGED <<riskEnabled, config, tradesLog, now, toolkitVars, agent>>

\* a caller invokes getStats()
RiskGetStats ==
  LET r == getStats
  IN  /\ lastCheck.api = "none"
      /\ dailyPnl' = r.dailyPnl
      /\ dailyPnlResetTime' = r.dailyPnlResetTime
      /\ lastCheck' = [called |-> FALSE, api |-> "getStats", value |-> r.value,
                       now |-> now, preDailyPnl |-> dailyPnl,
                       preResetTime |-> dailyPnlResetTime,
                       preLog |-> tradesLog, preConfig |-> config]
      /\ UNCHANGED <<riskEnabled, config, tradesLog, now, toolkitVars, agent>>

\* a caller invokes getConfig()
RiskGetConfig ==
  /\ lastCheck.api = "none"
  /\ lastCheck' = [called |-> FALSE, api |-> "getConfig", value |-> getConfig,
                   now |-> now, preDailyPnl |-> dailyPnl,
                   preResetTime |-> dailyPnlResetTime,
                   preLog |-> tradesLog, preConfig |-> config]
  /\ UNCHANGED <<riskVars, now, toolkitVars, agent>>

\* a caller invokes updateConfig(config)
RiskUpdateConfig ==
  \E partial \in ConfigUpdates :
    LET r == updateConfig(partial)
    IN  /\ lastCheck.api = "none"
        /\ config' = r.config
        /\ lastCheck' = [called |-> FALSE, api |-> "updateConfig", partial |-> partial,
                         threw |-> r.threw,
                         now |-> now, preDailyPnl |-> dailyPnl,
                         preResetTime |-> dailyPnlResetTime,
                         preLog |-> tradesLog, preConfig |-> config]
        /\ UNCHANGED <<riskEnabled, dailyPnl, dailyPnlResetTime, tradesLog, now,
                       toolkitVars, agent>>

\* the caller takes the result of the call (a constructor that threw leaves
\* no object to call)
RiskCheckReturn ==
  /\ lastCheck.api \notin {"none", "constructor"}
  /\ lastCheck' = NoCheck
  /\ UNCHANGED <<riskVars, now, toolkitVars, agent>>

NextRisk ==
  \/ Tick \/ RiskCheckOpen \/ RiskCheckReturn \/ RiskRecordTrade
  \/ RiskGetDailyPnl \/ RiskGetStats \/ RiskGetConfig

SpecRisk == InitRisk /\ [][NextRisk]_vars

----------------------------------------------------------------------------
(* The RiskManager with a trade history one entry short of its cap *)

\* the history after TradesLogCap - 1 calls of recordTrade at the instant of
\* construction; the i-th call recorded 1000 + i, and dailyPnl is their sum
SeedLog == [i \in 1..(TradesLogCap - 1) |-> [timestamp |-> 0, pnl |-> 1000 + i]]

InitLog ==
  /\ riskEnabled = TRUE
  /\ config \in RiskConfigs
  /\ dailyPnl = (TradesLogCap - 1) * 1000 + ((TradesLogCap - 1) * TradesLogCap) \div 2
  /\ now = 0
  /\ dailyPnlResetTime = 0
  /\ tradesLog = SeedLog
  /\ lastCheck = NoCheck
  /\ assetMap = NullMap
  /\ spotAssetMap = NullMap
  /\ run = IdleRun
  /\ parked = <<>>
  /\ agent = NoAgent
  /\ opsStarted = 0

NextLog == Tick \/ RiskRecordTrade \/ RiskGetDailyPnl \/ RiskCheckReturn

SpecLog == InitLog /\ [][NextLog]_vars

----------------------------------------------------------------------------
(* The life of one RiskManager: construction, trades, reads, reconfiguration *)

\* new RiskManager(candidate): the object, or no object when validateConfig
\* throws
InitGate ==
  /\ \E c \in GateCandidates :
       IF validateConfig(c)
       THEN riskEnabled = TRUE /\ config = c /\ lastCheck = NoCheck
       ELSE /\ riskEnabled = FALSE /\ config = c
            /\ lastCheck = [called |-> FALSE, api |-> "constructor", threw |-> TRUE]
  /\ dailyPnl = 0
  /\ now = 0
  /\ dailyPnlResetTime = 0
  /\ tradesLog = <<>>
  /\ assetMap = NullMap
  /\ spotAssetMap = NullMap
  /\ run = IdleRun
  /\ parked = <<>>
  /\ agent = NoAgent
  /\ opsStarted = 0

GateRecordTrade == RecordTradeOf(GatePnls)

\* checkOpenPosition, also as the call that follows an updateConfig
GateCheckOpen ==
  CheckOpenOf(GateCheckParams, GatePositionLists, GateBalances, {"none", "updateConfig"})

NextGate ==
  \/ Tick \/ GateRecordTrade \/ GateCheckOpen \/ RiskGetDailyPnl
  \/ RiskUpdateConfig \/ RiskCheckReturn

SpecGate == InitGate /\ [][NextGate]_vars

----------------------------------------------------------------------------
(* The toolkit: openPosition and closePosition against the exchange *)

\* the riskConfig the toolkit is built with
ToolkitConfig == RiskConfig(3, 500, 100, 20, 1, TRUE, LimitKeys)

Init ==
  /\ riskEnabled \in BOOLEAN
  /\ config = ToolkitConfig
  /\ dailyPnl = 0
  /\ now = 0
  /\ dailyPnlResetTime = 0
  /\ tradesLog = <<>>
  /\ lastCheck = NoCheck
  /\ assetMap = NullMap
  /\ spotAssetMap = NullMap
  /\ run = IdleRun
  /\ parked = <<>>
  /\ agent = NoAgent
  /\ opsStarted = 0

\* a caller invokes openPosition(params)
OpenStart ==
  \E p \in OpenIntents :
    /\ run.pc = "idle"
    /\ opsStarted < MaxOps
    /\ opsStarted' = opsStarted + 1
    /\ run' = StartOpen(p)
    /\ UNCHANGED <<riskVars, now, lastCheck, agent, assetMap, spotAssetMap, parked>>

\* a caller invokes closePosition(params): getPositions begins
CloseStart ==
  \E p \in CloseIntents :
    /\ run.pc = "idle"
    /\ opsStarted < MaxOps
    /\ opsStarted' = opsStarted + 1
    /\ run' = Issue([IdleRun EXCEPT !.op = "close", !.params = p, !.posFlow = "state"],
                    "clearinghouseState", "positions", "closePositions")
    /\ UNCHANGED <<riskVars, now, lastCheck, agent, assetMap, spotAssetMap, parked>>

\* getPositions: clearinghouseState answers with the account's assetPositions,
\* one of the given lists; allMids is asked next
PosStateRespOf(lists) ==
  \E k \in PendingCall(run, "clearinghouseState", "positions") :
    /\ \/ \E ps \in lists :
            run' = Issue([Answered(run, k, "ok") EXCEPT !.posFlow = "mids",
                                                         !.positions = ps],
                         "allMids", "positions", run.pc)
       \/ run' = [Answered(run, k, "throw") EXCEPT !.posFlow = "done", !.posOk = FALSE]
    /\ UNCHANGED <<riskVars, now, lastCheck, agent, assetMap, spotAssetMap, opsStarted, parked>>

PosStateResp == PosStateRespOf(PositionLists)

\* getPositions: allMids answers; the positions are returned, or the failure
PosMidsResp ==
  \E k \in PendingCall(run, "allMids", "positions"), ok \in BOOLEAN :
    /\ run' = IF ok
              THEN [Answered(run, k, "ok") EXCEPT !.posFlow = "done", !.posOk = TRUE]
              ELSE [Answered(run, k, "throw") EXCEPT !.posFlow = "done", !.posOk = FALSE,
                                                      !.positions = <<>>]
    /\ UNCHANGED <<riskVars, now, lastCheck, agent, assetMap, spotAssetMap, opsStarted, parked>>

\* getBalance: clearinghouseState answers
BalStateResp ==
  \E k \in PendingCall(run, "clearinghouseState", "balance") :
    /\ \/ \E bal \in Balances :
            run' = [Answered(run, k, "ok") EXCEPT !.balFlow = "done", !.balOk = TRUE,
                                                   !.balance = bal]
       \/ run' = [Answered(run, k, "throw") EXCEPT !.balFlow = "done", !.balOk = FALSE]
    /\ UNCHANGED <<riskVars, now, lastCheck, agent, assetMap, spotAssetMap, opsStarted, parked>>

\* openPosition resumes after Promise.all: the risk check
OpenRiskDecide ==
  /\ run.op = "open" /\ run.pc = "risk"
  /\ run.posFlow = "done" /\ run.balFlow = "done"
  /\ LET r == [run EXCEPT !.positions = <<>>, !.balance = 0]
         res == checkOpenPosition(run.params, run.positions, run.balance)
     IN  IF ~run.posOk \/ ~run.balOk
         THEN /\ run' = Fail(r, "riskFetch", 0)
              /\ UNCHANGED <<dailyPnl, dailyPnlResetTime>>
         ELSE /\ run' = AfterRiskCheck(r, res)
              /\ dailyPnl' = res.dailyPnl
              /\ dailyPnlResetTime' = res.dailyPnlResetTime
  /\ UNCHANGED <<riskEnabled, config, tradesLog, now, lastCheck, agent, assetMap, spotAssetMap,
                 opsStarted, parked>>

\* closePosition resumes after getPositions: the position is looked up
ClosePositionsDone ==
  /\ run.op = "close" /\ run.pc = "closePositions"
  /\ run.posFlow = "done"
  /\ LET r == [run EXCEPT !.positions = <<>>]
         found == { i \in 1..Len(run.positions) :
                      ToUpper(run.positions[i].coin) = ToUpper(run.params.coin) }
     IN  run' = IF ~run.posOk THEN Fail(r, "positionsFetch", 0)
                ELSE IF found = {} THEN Fail(r, "noPosition", 0)
                ELSE GetAssetIndex([r EXCEPT !.position = run.positions[MinOf(found)]])
  /\ UNCHANGED <<riskVars, now, lastCheck, agent, assetMap, spotAssetMap, opsStarted, parked>>

\* meta() or spotMeta() answers: the cache is built and the symbol looked up
MetaResp ==
  \E k \in PendingCall(run, "meta", "asset") \cup PendingCall(run, "spotMeta", "asset"),
     ok \in BOOLEAN :
    /\ IF ~ok
       THEN /\ run' = Fail(Answered(run, k, "throw"), "gateway", k)
            /\ UNCHANGED <<assetMap, spotAssetMap>>
       ELSE IF run.calls[k].api = "spotMeta"
       THEN /\ spotAssetMap' = BuildSpotMap
            /\ run' = Resolve(Answered(run, k, "ok"), BuildSpotMap)
            /\ UNCHANGED assetMap
       ELSE /\ assetMap' = BuildPerpMap
            /\ run' = Resolve(Answered(run, k, "ok"), BuildPerpMap)
            /\ UNCHANGED spotAssetMap
    /\ UNCHANGED <<riskVars, now, lastCheck, agent, opsStarted, parked>>

\* getBookTopLevels: l2Book answers
BookResp ==
  \E k \in PendingCall(run, "l2Book", "book") :
    /\ \/ run' = Fail(Answered(run, k, "throw"), "gateway", k)
       \/ \E top \in BookTops(ToUpper(run.params.coin)) :
            LET r == [Answered(run, k, "ok") EXCEPT !.bookTop = top]
            IN  run' = IF top.bestBid = 0 \/ top.bestAsk = 0
                       THEN Fail(Answered(run, k, "ok"), "noLiquidity", k)
                       ELSE IF run.op = "close"
                       THEN Issue(r, "order", "close", "closeOrder")
                       ELSE ComputeSize(r)
    /\ UNCHANGED <<riskVars, now, lastCheck, agent, assetMap, spotAssetMap, opsStarted, parked>>

\* updateLeverage answers
LeverageResp ==
  \E k \in PendingCall(run, "updateLeverage", "leverage"), ok \in BOOLEAN :
    /\ run' = IF ok THEN SubmitEntry(Answered(run, k, "ok"))
              ELSE Fail(Answered(run, k, "throw"), "gateway", k)
    /\ UNCHANGED <<riskVars, now, lastCheck, agent, assetMap, spotAssetMap, opsStarted, parked>>

\* the entry order is answered
EntryResp ==
  \E k \in PendingCall(run, "order", "entry"), ans \in OrderAnswers :
    /\ run' = AfterEntry(run, k, ans)
    /\ UNCHANGED <<riskVars, now, lastCheck, agent, assetMap, spotAssetMap, opsStarted, parked>>

\* allMids, read for the trigger price of a leg, answers: the leg is submitted
LegMidsResp ==
  \E k \in PendingCall(run, "allMids", "sl") \cup PendingCall(run, "allMids", "tp"),
     ok \in BOOLEAN, currentPrice \in AllMids :
    /\ run' = IF ok THEN Issue([Answered(run, k, "ok") EXCEPT !.mid = currentPrice],
                               "order", run.calls[k].leg, "leg")
              ELSE Fail(Answered(run, k, "throw"), "gateway", k)
    /\ UNCHANGED <<riskVars, now, lastCheck, agent, assetMap, spotAssetMap, opsStarted, parked>>

\* a stop-loss or take-profit order is answered
LegResp ==
  \E k \in PendingCall(run, "order", "sl") \cup PendingCall(run, "order", "tp"),
     ans \in OrderAnswers :
    /\ run' = AfterLeg(run, k, ans)
    /\ UNCHANGED <<riskVars, now, lastCheck, agent, assetMap, spotAssetMap, opsStarted, parked>>

\* the close order is answered
CloseOrderResp ==
  \E k \in PendingCall(run, "order", "close"), ans \in OrderAnswers :
    LET r1 == Answered(run, k, ans)
        rec == recordTrade(run.position.unrealizedPnl)
        records == ans # "throw" /\ RecordsClose(run.params)
        r2 == IF records
              THEN [r1 EXCEPT !.recorded = Append(@, run.position.unrealizedPnl)]
              ELSE r1
    IN  /\ run' = IF ans = "throw" THEN Fail(r1, "gateway", k)
                  ELSE IF ans = "malformed" THEN Fail(r2, "malformed", k)
                  ELSE Succeed(r2, extractOrderId(ans, k))
        /\ IF records
           THEN /\ dailyPnl' = rec.dailyPnl
                /\ dailyPnlResetTime' = rec.dailyPnlResetTime
                /\ tradesLog' = rec.tradesLog
           ELSE UNCHANGED <<dailyPnl, dailyPnlResetTime, tradesLog>>
        /\ UNCHANGED <<riskEnabled, config, now, lastCheck, agent, assetMap, spotAssetMap,
                       opsStarted, parked>>

\* the caller has the result; the toolkit is ready for the next call
Return ==
  /\ run.pc = "done"
  /\ run' = IdleRun
  /\ UNCHANGED <<riskVars, now, lastCheck, agent, assetMap, spotAssetMap, opsStarted, parked>>

Next ==
  \/ OpenStart \/ CloseStart
  \/ PosStateResp \/ PosMidsResp \/ BalStateResp
  \/ OpenRiskDecide \/ ClosePositionsDone
  \/ MetaResp \/ BookResp \/ LeverageResp
  \/ EntryResp \/ LegMidsResp \/ LegResp
  \/ CloseOrderResp \/ Return
  \/ Tick

Spec == Init /\ [][Next]_vars

----------------------------------------------------------------------------
(* batchExecute: operations started together on one toolkit.  Each call runs
   from one await to the next without interruption; `run` is the call whose
   continuation runs next and `parked` holds the others. *)

\* operations arrays handed to batchExecute, all of type 'open'
BatchOperations ==
  { << OpenIntent("A", "long", "perp", 100, 0, 5, 0, "market"),
       OpenIntent("B", "long", "perp", 100, 0, 5, 0, "market") >>,
    << OpenIntent("A", "long", "spot", 100, 0, 0, 0, "market"),
       OpenIntent("A", "long", "spot", 100, 0, 0, 0, "market") >> }

\* the calls of the batch
BatchTasks == <<run>> \o parked

\* the perp coins for which an entry order of the batch has been filled
FilledCoins ==
  { BatchTasks[i].params.coin :
      i \in { j \in 1..Len(BatchTasks) :
                /\ BatchTasks[j].op = "open" /\ BatchTasks[j].params.market = "perp"
                /\ \E k \in 1..Len(BatchTasks[j].calls) :
                     /\ BatchTasks[j].calls[k].api = "order"
                     /\ BatchTasks[j].calls[k].leg = "entry"
                     /\ BatchTasks[j].calls[k].resp = "filled" } }

\* the account's assetPositions: none before the batch, then one position for
\* each coin with a filled entry order
AccountPositions ==
  (IF "A" \in FilledCoins THEN << Pos("A", "long", 1, 0) >> ELSE <<>>)
  \o (IF "B" \in FilledCoins THEN << Pos("B", "long", 1, 0) >> ELSE <<>>)

InitBatch ==
  /\ riskEnabled = TRUE
  /\ config = ToolkitConfig
  /\ dailyPnl = 0
  /\ now = 0
  /\ dailyPnlResetTime = 0
  /\ tradesLog = <<>>
  /\ lastCheck = NoCheck
  /\ assetMap = NullMap
  /\ spotAssetMap = NullMap
  /\ run = IdleRun
  /\ parked = <<>>
  /\ agent = NoAgent
  /\ opsStarted = 0

\* batchExecute(operations): operations.map starts each call in turn, and
\* each runs up to its first await
BatchStart ==
  \E ops \in BatchOperations :
    /\ run.pc = "idle" /\ parked = <<>> /\ opsStarted = 0
    /\ run' = StartOpen(ops[1])
    /\ parked' = << StartOpen(ops[2]) >>
    /\ opsStarted' = Len(ops)
    /\ UNCHANGED <<riskVars, now, lastCheck, agent, assetMap, spotAssetMap>>

\* the event loop turns to another call of the batch
Switch ==
  \E i \in 1..Len(parked) :
    /\ run' = parked[i]
    /\ parked' = [parked EXCEPT ![i] = run]
    /\ UNCHANGED <<riskVars, now, lastCheck, agent, assetMap, spotAssetMap, opsStarted>>

\* getPositions within a batch: the exchange answers with the account as it is
BatchPosStateResp == PosStateRespOf({AccountPositions})

\* Promise.allSettled resolves: every call of the batch has returned
BatchReturn ==
  /\ parked # <<>>
  /\ \A i \in 1..Len(BatchTasks) : BatchTasks[i].pc = "done"
  /\ run' = IdleRun
  /\ parked' = <<>>
  /\ UNCHANGED <<riskVars, now, lastCheck, agent, assetMap, spotAssetMap, opsStarted>>

NextBatch ==
  \/ BatchStart \/ Switch \/ BatchReturn
  \/ BatchPosStateResp \/ PosMidsResp \/ BalStateResp \/ OpenRiskDecide
  \/ MetaResp \/ BookResp \/ LeverageResp
  \/ EntryResp \/ LegMidsResp \/ LegResp

SpecBatch == InitBatch /\ [][NextBatch]_vars

----------------------------------------------------------------------------
(* The agent: start, stop, its interval timer, its ticks, actions on demand *)

InitAgent ==
  /\ riskEnabled = TRUE
  /\ config = ToolkitConfig
  /\ dailyPnl = 0
  /\ now = 0
  /\ dailyPnlResetTime = 0
  /\ tradesLog = <<>>
  /\ lastCheck = NoCheck
  /\ assetMap = NullMap
  /\ spotAssetMap = NullMap
  /\ run = IdleRun
  /\ parked = <<>>
  /\ opsStarted = 0
  /\ \E paper \in BOOLEAN : agent = [NoAgent EXCEPT !.paperTrading = paper]

\* start() up to its await of the first tick (it throws when already running)
AgentStart ==
  /\ ~agent.isRunning
  /\ agent.starts < MaxStarts
  /\ agent' = tick([agent EXCEPT !.isRunning = TRUE, !.starts = @ + 1], TRUE)
  /\ UNCHANGED <<riskVars, now, lastCheck, toolkitVars>>

\* start() resumes after a first tick that was skipped
StartResume ==
  /\ agent.startsPending > 0
  /\ agent' = setInterval([agent EXCEPT !.startsPending = @ - 1])
  /\ UNCHANGED <<riskVars, now, lastCheck, toolkitVars>>

\* stop(), also through dispose() (it returns at once when not running)
AgentStop ==
  /\ agent.isRunning
  /\ agent' = [agent EXCEPT !.timers = IF agent.intervalHandle THEN @ - 1 ELSE @,
                            !.intervalHandle = FALSE, !.isRunning = FALSE]
  /\ UNCHANGED <<riskVars, now, lastCheck, toolkitVars>>

\* an armed interval timer fires: its callback calls #tick()
TimerFire ==
  /\ agent.timers > 0
  /\ agent.fired < MaxFires
  /\ agent' = tick([agent EXCEPT !.fired = @ + 1], FALSE)
  /\ UNCHANGED <<riskVars, now, lastCheck, toolkitVars>>

\* a suspended tick resumes: gatherContext has returned, generateActions has
\* answered (a list of actions, or it rejects), or the action in progress
\* has returned
TickResume ==
  \E i \in 1..Len(agent.ticks) :
    LET t == agent.ticks[i]
    IN  /\ CASE t.pc = "gather" ->
                  agent' = [agent EXCEPT !.ticks[i].pc = "generate"]
             [] t.pc = "generate" ->
                  \/ agent' = endTick(agent, i, TRUE)
                  \/ \E actions \in AgentActionLists :
                       agent' = IF actions = <<>> THEN endTick(agent, i, FALSE)
                                ELSE [agent EXCEPT !.ticks[i].pc = "execute",
                                                   !.ticks[i].todo = actions]
             [] t.pc = "execute" ->
                  \E success \in BOOLEAN :
                    LET a1 == executeAction(agent, Head(t.todo), success)
                    IN  agent' = IF Len(t.todo) = 1 THEN endTick(a1, i, FALSE)
                                 ELSE [a1 EXCEPT !.ticks[i].todo = Tail(@)]
        /\ UNCHANGED <<riskVars, now, lastCheck, toolkitVars>>

\* executeAction(action) on demand, up to its await (it throws when running)
AgentExecuteAction ==
  \E type \in {"close_position"} :
    /\ ~agent.isRunning
    /\ agent.manual = "none"
    /\ agent.requested < MaxActions
    /\ agent' = [agent EXCEPT !.manual = type, !.requested = @ + 1]
    /\ UNCHANGED <<riskVars, now, lastCheck, toolkitVars>>

\* the action executed on demand has returned
AgentActionDone ==
  \E success \in BOOLEAN :
    /\ agent.manual # "none"
    /\ agent' = [executeAction(agent, agent.manual, success) EXCEPT !.manual = "none"]
    /\ UNCHANGED <<riskVars, now, lastCheck, toolkitVars>>

NextAgent ==
  \/ AgentStart \/ StartResume \/ AgentStop \/ TimerFire \/ TickResume
  \/ AgentExecuteAction \/ AgentActionDone

SpecAgent == InitAgent /\ [][NextAgent]_vars

\* every awaited call of a tick returns
SpecAgentLive == SpecAgent /\ WF_vars(TickResume)

----------------------------------------------------------------------------
(* Claims about checkOpenPosition *)

CheckNames ==
  <<"leverage", "notional", "positions", "dailyLoss", "drawdown", "stopLoss", "margin">>

\* the daily P&L the recorded call saw, after the lazy rollover
SeenDailyPnl ==
  IF lastCheck.now - lastCheck.preResetTime >= dayMs THEN 0 ELSE lastCheck.preDailyPnl

HeldCoins(ps) == { ps[i].coin : i \in 1..Len(ps) }

\* limit k of the configuration is violated by the recorded call, each limit
\* taken on its own
LimitViolated(k) ==
  LET p == lastCheck.params
      ps == lastCheck.positions
      bal == lastCheck.balance
      total == SumUnrealized(ps)
      lev == IF p.leverage = 0 THEN 1 ELSE p.leverage
  IN  CASE k = 1 -> p.leverage > config.maxLeverage
        [] k = 2 -> p.sizeUsd > config.maxPositionSizeUsd
        [] k = 3 -> /\ config.maxOpenPositions # 0
                    /\ Cardinality(HeldCoins(ps) \cup {p.coin}) > config.maxOpenPositions
        [] k = 4 -> /\ config.maxDailyLoss # 0
                    /\ AbsInt(SeenDailyPnl) >= config.maxDailyLoss
        [] k = 5 -> /\ config.maxDrawdownPercent # 0
                    /\ \/ bal = 0 /\ total # 0
                       \/ bal > 0 /\ 100 * AbsInt(total) >= config.maxDrawdownPercent * bal
        [] k = 6 -> /\ config.requireStopLoss
                    /\ p.stopLossPrice = 0
                    /\ p.stopLossPercent = 0
        [] k = 7 -> 10 * p.sizeUsd > 9 * bal * lev

ViolatedLimits == { k \in 1..7 : LimitViolated(k) }

\* C1: checkOpenPosition denies exactly when some limit is violated, and the
\* reason it gives is that of the earliest violated limit in the order
\* leverage, notional, open positions, daily loss, drawdown, stop-loss, margin.
C1_FirstFailingCheckWins ==
  lastCheck.called =>
    IF ViolatedLimits = {}
    THEN lastCheck.allowed /\ lastCheck.reason = "none"
    ELSE ~lastCheck.allowed /\ lastCheck.reason = CheckNames[MinOf(ViolatedLimits)]

\* a call violating the leverage and the notional limit (and more) at once
C1_Witness ==
  /\ lastCheck.called
  /\ {1, 2} \subseteq ViolatedLimits
  /\ Cardinality(ViolatedLimits) >= 3
  /\ lastCheck.reason = "leverage"

\* C4: with requireStopLoss, an intent with neither stop-loss field is never
\* allowed, and it is denied for the stop-loss mandate whenever the five
\* earlier limits hold.
C4_StopLossMandate ==
  (lastCheck.called /\ LimitViolated(6)) =>
    /\ ~lastCheck.allowed
    /\ (ViolatedLimits \cap 1..5 = {}) => lastCheck.reason = "stopLoss"

\* the mandate is what denies: the margin limit is violated too, the earlier ones hold
C4_Witness ==
  /\ lastCheck.called
  /\ ViolatedLimits = {6, 7}
  /\ lastCheck.reason = "stopLoss"

\* check k lets the recorded call pass with a caveat: the condition of its
\* warning (daily loss within 10% of the notional of the limit, drawdown at
\* 80% of the limit, margin above 70% of the balance)
WarningDue(k) ==
  LET p == lastCheck.params
      bal == lastCheck.balance
      total == SumUnrealized(lastCheck.positions)
      lev == IF p.leverage = 0 THEN 1 ELSE p.leverage
  IN  CASE k = 4 -> /\ config.maxDailyLoss # 0
                    /\ 10 * AbsInt(SeenDailyPnl) + p.sizeUsd >= 10 * config.maxDailyLoss
        [] k = 5 -> /\ config.maxDrawdownPercent # 0
                    /\ \/ bal = 0 /\ total # 0
                       \/ bal > 0 /\ 1000 * AbsInt(total) >= 8 * config.maxDrawdownPercent * bal
        [] k = 7 -> 10 * p.sizeUsd > 7 * bal * lev
        [] OTHER -> FALSE

DueWarnings == { k \in 1..7 : WarningDue(k) }

HasWarning(w) == \E i \in 1..Len(lastCheck.warnings) : lastCheck.warnings[i] = w

C17_NoDailyLossDenialOnProfit ==
  (lastCheck.called /\ SeenDailyPnl >= 0) => lastCheck.reason # "dailyLoss"

\* C18: an allowing result has no reason; a denying result has the reason of
\* the first failed check and carries the warning of every earlier check that
\* passed with a caveat.
C18_DenialCarriesEarlierWarnings ==
  lastCheck.called =>
    IF lastCheck.allowed
    THEN lastCheck.reason = "none"
    ELSE /\ ViolatedLimits # {}
         /\ lastCheck.reason = CheckNames[MinOf(ViolatedLimits)]
         /\ \A k \in DueWarnings :
              k < MinOf(ViolatedLimits) => HasWarning(CheckNames[k])

\* C19: with maxDrawdownPercent set and a positive balance, the drawdown
\* |sum of unrealizedPnl| / accountBalance x 100 denies exactly when it is above
\* the limit (the four earlier checks passing), and an allowed call carries the
\* drawdown warning exactly when the drawdown is above 80% of the limit.
C19_DrawdownAboveLimit ==
  (lastCheck.called /\ config.maxDrawdownPercent # 0 /\ lastCheck.balance > 0) =>
    LET total == AbsInt(SumUnrealized(lastCheck.positions))
        bal == lastCheck.balance
        above == 100 * total > config.maxDrawdownPercent * bal
        above80 == 1000 * total > 8 * config.maxDrawdownPercent * bal
    IN  /\ (above /\ ViolatedLimits \cap 1..4 = {}) => lastCheck.reason = "drawdown"
        /\ ~above => lastCheck.reason # "drawdown"
        /\ lastCheck.allowed => (HasWarning("drawdown") <=> above80)

\* the trades of the log recorded since the window started
WindowTrades ==
  LET inWindow(t) == t.timestamp >= dailyPnlResetTime
  IN  SelectSeq(tradesLog, inWindow)

\* the recorded call runs the lazy rollover: every read and write does, a
\* check when it reaches the daily-loss check
RunsRollover ==
  \/ lastCheck.api \in {"getDailyPnl", "getStats", "recordTrade"}
  \/ /\ lastCheck.api = "checkOpenPosition"
     /\ config.maxDailyLoss # 0 /\ ViolatedLimits \cap 1..3 = {}

\* C20: the daily P&L is the sum of the pnls recorded since the window
\* started; a read or write made less than 24h after the window started keeps
\* the window (recordTrade adding its pnl), one made 24h or more after it
\* restarts the window at that moment from 0 (recordTrade then adding its
\* pnl); getDailyPnl and getStats return the daily P&L so obtained.
C20_LazyDailyRollover ==
  /\ dailyPnl = SumPnl(WindowTrades)
  /\ (lastCheck.api # "none" /\ RunsRollover) =>
       LET added == IF lastCheck.api = "recordTrade" THEN lastCheck.pnl ELSE 0
       IN  /\ IF lastCheck.now - lastCheck.preResetTime >= 24 * 60 * 60 * 1000
              THEN dailyPnl = added /\ dailyPnlResetTime = lastCheck.now
              ELSE /\ dailyPnl = lastCheck.preDailyPnl + added
                   /\ dailyPnlResetTime = lastCheck.preResetTime
           /\ lastCheck.api = "getDailyPnl" => lastCheck.value = dailyPnl
           /\ lastCheck.api = "getStats" => lastCheck.value.dailyPnl = dailyPnl

\* a trade was recorded and getDailyPnl, called a day later, returns 0
C20_Witness ==
  /\ lastCheck.api = "getDailyPnl"
  /\ tradesLog # <<>> /\ lastCheck.preDailyPnl # 0
  /\ lastCheck.now - tradesLog[Len(tradesLog)].timestamp >= 24 * 60 * 60 * 1000
  /\ lastCheck.value = 0

----------------------------------------------------------------------------
(* Claims about openPosition and closePosition *)

CallIds == 1..Len(run.calls)

\* the calls that act on the exchange: exchangeClient.updateLeverage / order
ExchangeCalls == { k \in CallIds : run.calls[k].api \in {"updateLeverage", "order"} }

LegCalls(leg) == { k \in CallIds : run.calls[k].api = "order" /\ run.calls[k].leg = leg }

OpenRun == run.op = "open"

PerpOpenRun == run.op = "open" /\ run.params.market = "perp"

\* C2 as stated: with a risk manager configured, every entry order (perp or
\* spot) was submitted after checkOpenPosition approved the request.
C2_EveryEntryApproved ==
  (riskEnabled /\ OpenRun) =>
    \A k \in LegCalls("entry") : run.calls[k].checked = "allowed"

\* C2 amended: with a risk manager configured, every perp entry order was
\* submitted after checkOpenPosition approved the request.
C2_PerpEntryApproved ==
  (riskEnabled /\ PerpOpenRun) =>
    \A k \in LegCalls("entry") : run.calls[k].checked = "allowed"

\* a perp entry order submitted under a risk manager
C2_Witness ==
  riskEnabled /\ PerpOpenRun /\ LegCalls("entry") # {}

\* C3: with a riskConfig, the notional of every entry order (the size sent
\* times the reference price) is at most maxPositionSizeUsd.
C3_EntryNotionalWithinLimit ==
  (riskEnabled /\ OpenRun) =>
    \A k \in LegCalls("entry") :
      LET c == run.calls[k]
      IN  c.size.units * c.refNum
            <= config.maxPositionSizeUsd * Pow10(c.size.decimals) * c.refDen

\* C5 as stated: a denied request has made no network call.
C5_DeniedBeforeAnyCall ==
  run.riskCheck = "denied" => run.calls = <<>>

\* C5 amended: a denied request has returned its failure having made only the
\* account reads the check needs (clearinghouseState for the positions and for
\* the balance, allMids for the positions), all of them answered.
C5_DeniedAfterAccountReadsOnly ==
  run.riskCheck = "denied" =>
    /\ run.pc = "done"
    /\ ~run.result.success /\ run.result.error = "risk"
    /\ run.inflight = {}
    /\ Len(run.calls) = 3
    /\ \A k \in CallIds : run.calls[k].api \in {"clearinghouseState", "allMids"}
    /\ Cardinality({ k \in CallIds : run.calls[k].api = "allMids" }) = 1

\* a request denied for its notional
C5_Witness ==
  run.riskCheck = "denied" /\ run.riskReason = "notional"

LegRank(leg) ==
  CASE leg = "leverage" -> 1 [] leg = "entry" -> 2 [] leg = "sl" -> 3
    [] leg = "tp" -> 4 [] OTHER -> 0

\* C6: in a perp openPosition the exchange calls are made in the order leverage
\* update, entry, stop-loss, take-profit, each at most once; the entry follows a
\* completed leverage update, a leg follows an entry answered with a non-error
\* status, and no two of them are in flight together.
C6_ExchangeCallsInOrder ==
  PerpOpenRun =>
    /\ \A i, j \in ExchangeCalls :
         i < j => LegRank(run.calls[i].leg) < LegRank(run.calls[j].leg)
    /\ \A k \in LegCalls("entry") :
         \E i \in 1..(k - 1) : /\ run.calls[i].api = "updateLeverage"
                               /\ run.calls[i].resp = "ok"
    /\ \A k \in LegCalls("sl") \cup LegCalls("tp") :
         \E i \in LegCalls("entry") :
           i < k /\ run.calls[i].resp \in {"resting", "filled", "waiting"}
    /\ Cardinality(ExchangeCalls \cap run.inflight) <= 1
    /\ \A k \in ExchangeCalls : run.calls[k].concurrent = {}

\* a perp run that made all four exchange calls
C6_Witness ==
  /\ PerpOpenRun /\ run.pc = "done" /\ run.result.success
  /\ Cardinality(ExchangeCalls) = 4
  /\ LegCalls("sl") # {} /\ LegCalls("tp") # {}

\* step k of the run failed: the call rejected, or the order was answered with
\* an error status (for the entry also: with no statuses)
StepFailed(k) ==
  \/ run.calls[k].resp = "throw"
  \/ run.calls[k].api = "order" /\ run.calls[k].resp = "error"
  \/ run.calls[k].leg = "entry" /\ run.calls[k].resp = "malformed"

\* C7: when a step of openPosition fails, no later exchange call is made in the
\* run and the result is that failure.
C7_FirstFailureAborts ==
  OpenRun =>
    \A k \in ExchangeCalls :
      StepFailed(k) =>
        /\ \A j \in ExchangeCalls : j <= k
        /\ run.pc = "done" => (~run.result.success /\ run.result.cause = k)

EntryAccepted ==
  \E k \in LegCalls("entry") : run.calls[k].resp \in {"resting", "filled", "waiting"}

FailedLegs == { k \in LegCalls("sl") \cup LegCalls("tp") : StepFailed(k) }

\* C8: when the entry succeeded and a protective leg failed, the result is a
\* success carrying the entry's orderId together with the failure of that leg.
C8_LegFailureIsSuccessWithWarning ==
  (OpenRun /\ run.pc = "done" /\ EntryAccepted /\ FailedLegs # {}) =>
    /\ run.result.success
    /\ run.result.orderId = run.orderId
    /\ run.result.error # "none"
    /\ run.result.cause \in FailedLegs

\* C9: an order answered with an error status makes the operation fail with
\* that rejection.
C9_RejectedOrderIsFailure ==
  run.pc = "done" =>
    \A k \in CallIds :
      (run.calls[k].api = "order" /\ run.calls[k].resp = "error") =>
        /\ ~run.result.success
        /\ run.result.error = "orderRejected"
        /\ run.result.cause = k

CloseAnswered ==
  \E k \in LegCalls("close") : run.calls[k].resp \notin {"pending", "throw"}

\* C10: a closePosition whose order call returned records the position's P&L
\* exactly once when it closes 100% (percent absent counts as 100) and records
\* nothing when it closes a part; a close that ends earlier records nothing.
C10_RecordOncePerFullClose ==
  (riskEnabled /\ run.op = "close" /\ run.pc = "done") =>
    LET pct == IF run.params.percent = 0 THEN 100 ELSE run.params.percent
    IN  IF CloseAnswered /\ pct = 100
        THEN run.recorded = << run.position.unrealizedPnl >>
        ELSE run.recorded = <<>>

\* a full close by default (percent not supplied) that recorded its P&L
C10_Witness ==
  /\ riskEnabled /\ run.op = "close" /\ run.pc = "done"
  /\ run.params.percent = 0
  /\ run.result.success
  /\ Len(run.recorded) = 1
  /\ tradesLog # <<>> /\ tradesLog[Len(tradesLog)].pnl = run.recorded[1]

----------------------------------------------------------------------------
(* Claims about the orders sent: side, reduce-only flag, size *)

OrderCalls == { k \in CallIds : run.calls[k].api = "order" }

\* C11: every order of closePosition is reduce-only, on the side opposite to
\* the position read at the start, and its size is position.size x
\* closePercent / 100 rounded down to szDecimals, never above the position.
C11_CloseOrderOppositeReduceOnlyFloor ==
  run.op = "close" =>
    \A k \in LegCalls("close") :
      LET c == run.calls[k]
          factor == Pow10(run.asset.szDecimals)
          pct == IF run.params.percent = 0 THEN 100 ELSE run.params.percent
      IN  /\ c.reduceOnly
          /\ c.buy = (run.position.side = "short")
          /\ c.size.units = (run.position.size * pct * factor) \div 100
          /\ c.size.units <= run.position.size * factor

\* the quantity the run asks for is not positive, or is below one unit of
\* 10^-szDecimals when rounded down
QuantityUnusable ==
  \/ /\ run.op = "open"
     /\ \/ run.params.sizeUsd < 0
        \/ run.params.sizeUsd = 0 /\ run.params.sizeCoin <= 0
  \/ /\ run.op = "close" /\ run.asset.known
     /\ LET pct == IF run.params.percent = 0 THEN 100 ELSE run.params.percent
        IN  run.position.size * pct * Pow10(run.asset.szDecimals) < 100

\* C12: the size of every order sent is at least one unit of 10^-szDecimals,
\* and a run asking for an unusable quantity fails without sending an order.
C12_SentSizePositive ==
  /\ \A k \in OrderCalls : run.calls[k].size.ok /\ run.calls[k].size.units >= 1
  /\ (run.pc = "done" /\ QuantityUnusable) => (~run.result.success /\ OrderCalls = {})

\* a close of 10% of 5 coins at szDecimals 0 has failed as too small
C12_Witness ==
  /\ run.pc = "done" /\ QuantityUnusable
  /\ run.result.error = "sizeTooSmall"
  /\ OrderCalls = {}

\* C13: the size string of every order sent has the value of the rounded
\* quantity, at every szDecimals.
C13_SizeStringKeepsValue ==
  \A k \in OrderCalls : run.calls[k].size.units = run.calls[k].size.rounded

\* the quantity q (in units of 10^-decimals) is the request num/den rounded in
\* the given direction, within one unit of it
RoundedWithinOneUnit(q, sz) ==
  LET exact == sz.num * Pow10(sz.decimals)      \* in units of 1/den
  IN  IF sz.rounding = "up"
      THEN q * sz.den >= exact /\ q * sz.den - exact <= sz.den
      ELSE q * sz.den <= exact /\ exact - q * sz.den <= sz.den

\* C14: the quantity of every order sent is the exact quantity rounded up
\* (size given in USD) or down (size given in coins, and closes), within one
\* unit of 10^-szDecimals.
C14_RoundingDirectionAndError ==
  \A k \in OrderCalls :
    LET c == run.calls[k]
    IN  /\ RoundedWithinOneUnit(c.size.units, c.size)
        /\ c.size.rounding =
             (IF run.op = "open" /\ run.params.sizeUsd # 0 THEN "up" ELSE "down")

----------------------------------------------------------------------------
(* The trade history *)

\* C21: the trade history never holds more than 1000 entries, and a
\* recordTrade call leaves the entries it found, in their order, followed by
\* the new entry, less the oldest entry alone when it found 1000
C21_HistoryKeepsLast1000 ==
  /\ Len(tradesLog) <= 1000
  /\ lastCheck.api = "recordTrade" =>
       LET entry == [timestamp |-> lastCheck.now, pnl |-> lastCheck.pnl]
           found == lastCheck.preLog
       IN  tradesLog = IF Len(found) < 1000
                       THEN Append(found, entry)
                       ELSE Append(Tail(found), entry)

\* the 1001st call has evicted the first entry and kept the second
C21_Witness ==
  /\ lastCheck.api = "recordTrade"
  /\ Len(lastCheck.preLog) = 1000
  /\ lastCheck.preLog[1].pnl = 1001
  /\ Len(tradesLog) = 1000
  /\ tradesLog[1].pnl = 1002
  /\ tradesLog[1000].pnl = lastCheck.pnl

\* C22: recordTrade(pnl), for a positive, zero or negative pnl, first rolls
\* the window over when 24h have passed, then adds pnl to the daily P&L and
\* appends {timestamp, pnl} to the history; so the daily P&L is always the sum
\* of the pnls recorded since the window started, the pnl of a call that
\* rolls the window over included
C22_RecordRollsThenAdds ==
  /\ lastCheck.api = "recordTrade" =>
       LET rolled == lastCheck.now - lastCheck.preResetTime >= 24 * 60 * 60 * 1000
       IN  /\ dailyPnlResetTime = IF rolled THEN lastCheck.now ELSE lastCheck.preResetTime
           /\ dailyPnl = (IF rolled THEN 0 ELSE lastCheck.preDailyPnl) + lastCheck.pnl
           /\ tradesLog = Append(lastCheck.preLog,
                                 [timestamp |-> lastCheck.now, pnl |-> lastCheck.pnl])
  /\ dailyPnl = SumPnl(WindowTrades)

\* a loss recorded a day after a gain starts a new window holding the loss
C22_Witness ==
  /\ lastCheck.api = "recordTrade"
  /\ lastCheck.now - lastCheck.preResetTime >= 24 * 60 * 60 * 1000
  /\ lastCheck.preDailyPnl > 0 /\ lastCheck.pnl < 0
  /\ dailyPnl = lastCheck.pnl /\ dailyPnlResetTime = lastCheck.now
  /\ Len(tradesLog) = 2

\* the calls that read: getDailyPnl, getStats, getConfig, and checkOpenPosition
ReadApis == {"getDailyPnl", "getStats", "getConfig", "checkOpenPosition"}

\* C23: a read (getDailyPnl, getStats, getConfig, or checkOpenPosition as a
\* decision) leaves the history and the config as they were, and changes the
\* daily P&L and the window start only by the rollover; made less than 24h
\* after the window started, it leaves the whole state as it was
C23_ReadsChangeOnlyByRollover ==
  lastCheck.api \in ReadApis =>
    LET kept == /\ dailyPnl = lastCheck.preDailyPnl
                /\ dailyPnlResetTime = lastCheck.preResetTime
        rolled == dailyPnl = 0 /\ dailyPnlResetTime = lastCheck.now
    IN  /\ tradesLog = lastCheck.preLog
        /\ config = lastCheck.preConfig
        /\ kept \/ rolled
        /\ lastCheck.now - lastCheck.preResetTime < 24 * 60 * 60 * 1000 => kept

\* getStats, 12h after the window started with a trade in it, found and left
\* a daily P&L other than 0
C23_Witness ==
  /\ lastCheck.api = "getStats"
  /\ lastCheck.now - lastCheck.preResetTime = 12 * 60 * 60 * 1000
  /\ lastCheck.preLog # <<>> /\ lastCheck.preDailyPnl # 0
  /\ dailyPnl = lastCheck.preDailyPnl /\ tradesLog = lastCheck.preLog

----------------------------------------------------------------------------
(* The configuration *)

\* the ranges of a RiskConfig: maxLeverage in (0, 50], maxPositionSizeUsd > 0
\* and, for each optional limit the object carries, maxDailyLoss > 0,
\* maxDrawdownPercent in (0, 100], maxOpenPositions > 0
WithinRanges(c) ==
  /\ c.maxLeverage > 0 /\ c.maxLeverage <= 50
  /\ c.maxPositionSizeUsd > 0
  /\ "maxDailyLoss" \in c.given => c.maxDailyLoss > 0
  /\ "maxDrawdownPercent" \in c.given =>
       c.maxDrawdownPercent > 0 /\ c.maxDrawdownPercent <= 100
  /\ "maxOpenPositions" \in c.given => c.maxOpenPositions > 0

\* C24 as stated: the config a RiskManager holds, after construction and
\* after any reconfigurations, is within the ranges, and a config outside them
\* is rejected at construction
C24_HeldConfigWithinRanges ==
  /\ riskEnabled => WithinRanges(config)
  /\ (lastCheck.api = "constructor" /\ lastCheck.threw) => ~WithinRanges(config)

\* the prior config overridden by the properties the argument supplies
MergedWith(prior, partial) ==
  LET v(k) == IF k \in partial.keys THEN partial[k] ELSE prior[k]
  IN  RiskConfig(v("maxLeverage"), v("maxPositionSizeUsd"), v("maxDailyLoss"),
                 v("maxDrawdownPercent"), v("maxOpenPositions"), v("requireStopLoss"),
                 prior.given \cup (partial.keys \cap LimitKeys))

\* C25: updateConfig validates the prior config overridden by the supplied
\* fields; when that validation fails the call fails and the config, the daily
\* window and the history are as before, and a checkOpenPosition made next
\* decides by the prior config; when it passes the merged config is held
C25_FailedUpdateKeepsPrior ==
  /\ lastCheck.api = "updateConfig" =>
       LET merged == MergedWith(lastCheck.preConfig, lastCheck.partial)
       IN  /\ lastCheck.threw = ~validateConfig(merged)
           /\ config = IF lastCheck.threw THEN lastCheck.preConfig ELSE merged
           /\ dailyPnl = lastCheck.preDailyPnl
           /\ dailyPnlResetTime = lastCheck.preResetTime
           /\ tradesLog = lastCheck.preLog
  /\ ( /\ lastCheck.api = "checkOpenPosition"
       /\ lastCheck.prev.api = "updateConfig" /\ lastCheck.prev.threw ) =>
       LET prior == lastCheck.prev.preConfig
           p == lastCheck.params
       IN  /\ config = prior
           /\ lastCheck.reason = "leverage" <=> p.leverage > prior.maxLeverage
           /\ lastCheck.allowed =>
                /\ p.sizeUsd <= prior.maxPositionSizeUsd
                /\ prior.requireStopLoss => p.stopLossPrice # 0 \/ p.stopLossPercent # 0

\* with trades recorded, an update that would have lifted the stop-loss
\* mandate failed on its maxOpenPositions, and the next check still denies an
\* intent without a stop-loss
C25_Witness ==
  /\ lastCheck.api = "checkOpenPosition"
  /\ lastCheck.prev.api = "updateConfig" /\ lastCheck.prev.threw
  /\ "requireStopLoss" \in lastCheck.prev.partial.keys
  /\ lastCheck.prev.preConfig.requireStopLoss
  /\ tradesLog # <<>> /\ dailyPnl # 0
  /\ ~lastCheck.allowed /\ lastCheck.reason = "stopLoss"

----------------------------------------------------------------------------
(* Claims about calls run together *)

\* the fetches of `api` (meta or spotMeta) made by the calls of the batch
MetaFetches(api) ==
  UNION { { <<i, k>> : k \in { c \in 1..Len(BatchTasks[i].calls) :
                                  BatchTasks[i].calls[c].api = api } } :
          i \in 1..Len(BatchTasks) }

\* C26 as stated: for each market at most one universe fetch is made, also
\* when first-time resolutions are issued together, and two resolutions of the
\* same (symbol, market) return the same asset
C26_OneFetchPerMarket ==
  /\ \A api \in {"meta", "spotMeta"} : Cardinality(MetaFetches(api)) <= 1
  /\ \A i, j \in 1..Len(BatchTasks) :
       ( /\ BatchTasks[i].asset.known /\ BatchTasks[j].asset.known
         /\ BatchTasks[i].params.coin = BatchTasks[j].params.coin
         /\ BatchTasks[i].params.market = BatchTasks[j].params.market )
       => BatchTasks[i].asset = BatchTasks[j].asset

----------------------------------------------------------------------------
(* Claims about the asset caches *)

\* the symbol is listed in the fetched universe of the market, whatever its
\* case: a perp asset name, a spot pair name, or the base token of a spot pair
Listed(coin, market) ==
  IF market = "spot"
  THEN \E i \in 1..Len(SpotUniverse) :
         \/ ToUpper(SpotUniverse[i].name) = ToUpper(coin)
         \/ \E t \in 1..Len(SpotTokens) :
              /\ SpotTokens[t].index = SpotUniverse[i].tokens[1]
              /\ ToUpper(SpotTokens[t].name) = ToUpper(coin)
  ELSE \E i \in 1..Len(PerpUniverse) : ToUpper(PerpUniverse[i].name) = ToUpper(coin)

\* C27 as stated: resolution fails as unknown exactly when the symbol is not
\* listed in the fetched universe; a listed perp name resolves to its universe
\* index and its own size decimals, a listed spot name to 10000 + its
\* universe index
C27_ListedSymbolsResolve ==
  LET coin == run.params.coin
      market == MarketOf(run)
  IN  /\ run.result.error = "unknownAsset" => ~Listed(coin, market)
      /\ run.asset.known =>
           /\ Listed(coin, market)
           /\ market = "perp" =>
                \E i \in 1..Len(PerpUniverse) :
                  /\ ToUpper(PerpUniverse[i].name) = ToUpper(coin)
                  /\ run.asset.index = i - 1
                  /\ run.asset.szDecimals = PerpUniverse[i].szDecimals
           /\ market = "spot" =>
                \E i \in 1..Len(SpotUniverse) : run.asset.index = 10000 + (i - 1)

\* the step is the risk decision of the call `run`, taken on the account reads
\* it holds
RiskDecisionStep ==
  /\ run.op = "open" /\ run.pc = "risk"
  /\ run.posFlow = "done" /\ run.balFlow = "done" /\ run.posOk /\ run.balOk
  /\ run'.op = "open" /\ run'.pc # "risk" /\ parked' = parked

\* C28: calls in flight together are not excluded from one another: the
\* decision of a call is taken on its own snapshot alone (it passes when the
\* snapshot leaves room under maxOpenPositions and the balance covers the
\* margin), whatever entry orders the other call has submitted since the
\* snapshot was read; so two calls that read the same snapshot both pass and
\* both submit, and the account ends above maxOpenPositions
C28_DecisionOnOwnSnapshot ==
  [][ RiskDecisionStep =>
        LET p == run.params
            held == \E i \in 1..Len(run.positions) : run.positions[i].coin = p.coin
            room == held \/ Len(run.positions) + 1 <= config.maxOpenPositions
            margin == 10 * p.sizeUsd <= 9 * run.balance * p.leverage
        IN  /\ (run'.riskCheck = "allowed") = (room /\ margin)
            /\ run'.riskCheck = "allowed" =>
                 \E k \in 1..Len(run'.calls) : k \in run'.inflight
    ]_vars

\* both calls of the batch passed the check and had their entry orders
\* filled: the account holds two positions under a limit of one
C28_Witness ==
  /\ Len(BatchTasks) = 2
  /\ \A i \in 1..2 : /\ BatchTasks[i].riskCheck = "allowed"
                      /\ BatchTasks[i].pc = "done" /\ BatchTasks[i].result.success
  /\ FilledCoins = {"A", "B"}
  /\ Len(AccountPositions) > config.maxOpenPositions

----------------------------------------------------------------------------
(* Claims about spot orders and about the order response *)

SpotOpenRun == run.op = "open" /\ run.params.market = "spot"

\* the result a call returns when the status answered to its order k is read:
\* a call that rejects or a response without statuses is a failure, an error
\* status a rejection, any other status a success with the oid it carries
ResultOf(ans, k) ==
  CASE ans = "throw" -> [success |-> FALSE, orderId |-> 0, error |-> "gateway", cause |-> k]
    [] ans = "malformed" ->
         [success |-> FALSE, orderId |-> 0, error |-> "malformed", cause |-> k]
    [] ans = "error" ->
         [success |-> FALSE, orderId |-> 0, error |-> "orderRejected", cause |-> k]
    [] ans \in {"resting", "filled"} ->
         [success |-> TRUE, orderId |-> 100 + k, error |-> "none", cause |-> 0]
    [] OTHER -> [success |-> TRUE, orderId |-> 0, error |-> "none", cause |-> 0]

\* C29: a spot openPosition issues no leverage update and no stop-loss or
\* take-profit order, whatever the intent carries; it submits one order, the
\* entry, and the outcome of that order is the result of the call
C29_SpotEntryOnly ==
  SpotOpenRun =>
    /\ \A k \in CallIds :
         /\ run.calls[k].api # "updateLeverage"
         /\ run.calls[k].leg \notin {"sl", "tp"}
    /\ Cardinality(OrderCalls) <= 1
    /\ \A k \in OrderCalls :
         /\ run.calls[k].leg = "entry"
         /\ run.calls[k].resp # "pending" =>
              run.pc = "done" /\ run.result = ResultOf(run.calls[k].resp, k)

\* a spot intent with leverage 2, a stop-loss and a take-profit has had its
\* entry filled and has returned the entry's order id
C29_Witness ==
  /\ SpotOpenRun /\ run.pc = "done" /\ run.result.success
  /\ run.params.leverage = 2
  /\ run.params.stopLossPercent # 0 /\ run.params.takeProfitPercent # 0
  /\ \E k \in OrderCalls : run.calls[k].resp = "filled" /\ run.result.orderId = 100 + k
  /\ Cardinality(OrderCalls) = 1

\* the orders whose response is normalized: the entry of openPosition and the
\* order of closePosition
NormalizedCalls == { k \in OrderCalls : run.calls[k].leg \in {"entry", "close"} }

\* C30: of a non-error status, {resting: {oid}} and {filled: {oid}} give
\* success with orderId = oid and any other shape success with orderId = 0; a
\* response without a non-empty statuses array gives a failure, never a
\* success
C30_StatusNormalization ==
  \A k \in NormalizedCalls :
    LET ans == run.calls[k].resp
        oid == IF ans \in {"resting", "filled"} THEN 100 + k ELSE 0
        last == run.op = "close" \/ run.params.market = "spot"
                  \/ (~WantsStopLoss(run.params) /\ ~WantsTakeProfit(run.params))
    IN  /\ ans = "malformed" =>
             run.pc = "done" /\ ~run.result.success /\ run.result.error = "malformed"
        /\ ans \in {"resting", "filled", "waiting"} =>
             /\ run.result.error \notin {"malformed", "orderRejected"}
             /\ last => run.pc = "done" /\ run.result.success
             /\ (run.pc = "done" /\ run.result.success) => run.result.orderId = oid

\* a close order answered with a status that carries no oid is returned as a
\* success with orderId 0
C30_Witness ==
  /\ run.op = "close" /\ run.pc = "done" /\ run.result.success
  /\ run.result.orderId = 0
  /\ \E k \in NormalizedCalls : run.calls[k].resp = "waiting"

----------------------------------------------------------------------------
(* Claims about the statistics read *)

\* C40: getStats is self-consistent: the dailyPnl it reports equals the sum
\* of the pnls of the trades it counts in totalTrades (avgPnl x totalTrades =
\* dailyPnl), the daily window and the trades counted as daily covering the
\* same trades.
C40_StatsSelfConsistent ==
  lastCheck.api = "getStats" =>
    lastCheck.value.dailyPnl = lastCheck.value.totalPnl

----------------------------------------------------------------------------
(* Claims about the results of the toolkit's actions *)

\* C31: the toolkit's actions never throw: every failure (unknown
\* instrument, invalid amount, size too small, no liquidity, malformed
\* response, risk denial, gateway error, rejected order) is returned as a
\* result with success = false and an error reason, and none is swallowed
\* into a success.
C31_FailuresAreFailureResults ==
  run.pc = "done" =>
    /\ ~run.result.success => run.result.error \notin {"none", "pending"}
    /\ (\/ run.riskCheck = "denied"
        \/ \E k \in 1..Len(run.calls) :
             run.calls[k].resp \in {"throw", "malformed", "error"})
       => ~run.result.success

\* C34: the risk gate is updated only after the close order's result is
\* known and only for a close that succeeded: when the close order's status
\* is an error, the response is malformed, or closePosition returns
\* success = false, recordTrade has not been called (the daily P&L and the
\* trade history are as before the call).
C34_RecordOnlySuccessfulClose ==
  (run.op = "close" /\ run.pc = "done") =>
    ((\/ ~run.result.success
      \/ \E k \in 1..Len(run.calls) :
           /\ run.calls[k].api = "order"
           /\ run.calls[k].resp \in {"error", "malformed"})
     => run.recorded = <<>>)

\* C35: any failure before the entry step of openPosition (risk denial or
\* failed account read, unknown instrument, an empty or zero side of the top
\* of book, no reference price, a missing, invalid or too-small size, a
\* failed universe or book read) ends the call with a failure result without
\* a leverage update having been issued and without any order submitted.
C35_EarlyFailureSendsNothing ==
  (/\ run.op = "open" /\ run.pc = "done" /\ ~run.result.success
   /\ \/ run.result.error \in {"risk", "riskFetch", "unknownAsset", "noLiquidity",
                               "noPrice", "noSize", "invalidSize", "sizeTooSmall"}
      \/ /\ run.result.error = "gateway"
         /\ run.calls[run.result.cause].api \in {"meta", "spotMeta", "l2Book"})
  => \A k \in 1..Len(run.calls) : run.calls[k].api \notin {"updateLeverage", "order"}

\* an approved perp open has resolved its instrument and fails on its size
\* (none given, or not above zero)
C35_Witness ==
  /\ run.op = "open" /\ run.pc = "done" /\ ~run.result.success
  /\ run.params.market = "perp" /\ run.riskCheck = "allowed"
  /\ run.result.error \in {"invalidSize", "noSize"}
  /\ \E k \in 1..Len(run.calls) : run.calls[k].api = "meta" /\ run.calls[k].resp = "ok"
  /\ \A k \in 1..Len(run.calls) : run.calls[k].api \notin {"updateLeverage", "order"}

----------------------------------------------------------------------------
(* Claims about the prices sent *)

\* C32: for a market-type order (entry or close) the price sent is
\* bestAsk x (1 + s) for a buy and bestBid x (1 - s) for a sell, truncated to
\* 5 significant figures, where s is the caller's slippagePercent / 100, or
\* the configured default (1%) when the caller supplies none; the mid price
\* is never the execution price.
C32_MarketPriceTruncated ==
  \A k \in 1..Len(run.calls) :
    (/\ run.calls[k].api = "order"
     /\ \/ run.calls[k].leg = "close"
        \/ run.calls[k].leg = "entry" /\ run.params.orderType = "market")
    => LET s == IF run.params.slippagePercent # 0 THEN run.params.slippagePercent
                ELSE defaultSlippage
           raw == IF run.calls[k].buy THEN run.bookTop.bestAsk * (100 + s)
                  ELSE run.bookTop.bestBid * (100 - s)
           e == Digits(raw \div 100)
       IN  run.calls[k].terms.price = ((raw * Pow10(5 - e)) \div 100) * Pow10(e)

\* C33: every price string sent to the exchange in a submitted order (market
\* entry, limit entry, stop-loss trigger, take-profit trigger, close) carries
\* at most 5 significant figures.
C33_PricesFiveSignificantFigures ==
  \A k \in 1..Len(run.calls) :
    run.calls[k].api = "order" => Digits(StripZeros(run.calls[k].terms.price)) <= 5

\* C36: an intent whose order kind is limit is only ever submitted as a GTC
\* limit order at the caller's limit price, never as an IOC order priced from
\* the order book plus slippage; a limit intent without a usable limit price
\* fails instead of being executed as a market order.
C36_LimitIntentStaysLimit ==
  (run.op = "open" /\ run.params.orderType = "limit") =>
    /\ \A k \in 1..Len(run.calls) :
         (run.calls[k].api = "order" /\ run.calls[k].leg = "entry") =>
           /\ run.calls[k].terms.tif = "Gtc"
           /\ run.calls[k].terms.price = run.params.limitPrice * Pow10(5)
    /\ (run.pc = "done" /\ run.params.limitPrice <= 0) => ~run.result.success

----------------------------------------------------------------------------
(* Claims about the agent *)

\* C37: after stop() has resolved no interval timer remains armed: in every
\* reachable state a timer is armed only while state.isRunning is true, also
\* when stop() is called while start() is still awaiting its first tick, and
\* a later start() never leaves two timers armed.
C37_TimerOnlyWhileRunning ==
  /\ agent.timers > 0 => agent.isRunning
  /\ agent.timers <= 1

\* C38: at most one tick executes at a time: a tick fired while an earlier
\* one is suspended at an await is skipped (it gathers nothing and executes
\* no action), the executing flag is set exactly while a tick is suspended
\* and is released when the tick ends, completed or failed, so that, every
\* awaited call returning, the flag is eventually free for a later tick.
C38_OneTickAtATime ==
  /\ [](/\ Len(agent.ticks) <= 1
        /\ agent.isExecuting <=> agent.ticks # <<>>)
  /\ [][agent.isExecuting => agent'.tickCount = agent.tickCount]_vars
  /\ (agent.isExecuting ~> ~agent.isExecuting)

\* a timer fired while a tick was suspended and was skipped; a tick has
\* failed, which released the flag, and a later tick is executing
C38_Witness ==
  /\ agent.starts + agent.fired > agent.tickCount
  /\ agent.fired >= 1 /\ agent.errors >= 1
  /\ agent.isExecuting /\ agent.tickCount >= 2

\* C39: with paperTrading the agent never invokes openPosition, closePosition
\* or cancelOrders, for an action of a tick or one executed on demand, and
\* totalTrades and the trade log stay as they are; without it totalTrades is
\* incremented exactly once per open_position or close_position action whose
\* result is a success.
C39_PaperTradingInvokesNothing ==
  /\ agent.paperTrading =>
       agent.invoked = 0 /\ agent.totalTrades = 0 /\ agent.tradeLogs = 0
  /\ agent.totalTrades = IF agent.paperTrading THEN 0 ELSE agent.succeeded

\* in paper trading mode a tick has gone through its actions and an action
\* was requested on demand
C39_Witness ==
  /\ agent.paperTrading
  /\ agent.tickCount >= 1 /\ ~agent.isExecuting /\ agent.errors = 0
  /\ agent.requested >= 1 /\ agent.manual = "none"

====
